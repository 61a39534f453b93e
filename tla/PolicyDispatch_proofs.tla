----------------------- MODULE PolicyDispatch_proofs -----------------------
(***************************************************************************)
(* A call of Policy raises only for a batch that cannot be computed as     *)
(* configured: OnlyBadInputRaises of PolicyDispatch, for every setup       *)
(* SetupsAssumption admits, every number of rows and calls, every layout   *)
(* of the workers, all three back ends and all four packers.               *)
(*                                                                         *)
(* The argument, from the loops up:                                        *)
(*  - a fold runs through states, one for each element (the ...Steps), so  *)
(*    that what a step keeps the loop keeps;                               *)
(*  - each packer puts every index into one bin and no bin beyond the      *)
(*    capacity, and _adjust_bin_count brings the bins to a multiple of the *)
(*    shards without raising when the rows are one (PackPacks);            *)
(*  - so every way to split an acceptable batch gives each shard at least  *)
(*    one bin, or microbatches, of every global batch, and all of the rows *)
(*    of the batch to the shards together (PackedRows, ShardPlainIs,       *)
(*    ShardDynamicIs, ShardPackedIs);                                      *)
(*  - so every worker cuts every batch it gets into microbatches and its   *)
(*    program has no collective at which it raises;                        *)
(*  - a call that fails therefore was not acceptable.  The inductive       *)
(*    invariant keeps, beside the claim, that the setup is one of Setups   *)
(*    and that the programs under way raise only for such a call.          *)
(***************************************************************************)
EXTENDS PolicyDispatch, SequenceLemmas, FiniteSetTheorems, TLAPS

-----------------------------------------------------------------------------
(* The loops, step by step *)

WiderOf(w, len) == IF len > w THEN len ELSE w

\* The load of a bin, step by step.
LoadStepsIn(V, n, base, s, bin, lens) ==
  \E st \in [0..n -> V] :
    /\ st[0] = base /\ Load(bin, lens) = st[n]
    /\ \A k \in 1..n : st[k] = st[k - 1] + lens[s[k]]

\* Load runs through such values in any set V that adding lengths does not leave.
LEMMA LoadSteps ==
  ASSUME NEW bin, NEW lens, NEW V, NEW base \in V, base = 0,
         NEW s, s = bin, NEW n \in Nat, DOMAIN s = 1..n,
         \A a \in V : \A i \in 1..n : a + lens[s[i]] \in V
  PROVE  LoadStepsIn(V, n, base, s, bin, lens)
<1> DEFINE Is(g) == g = [x \in SUBSET DOMAIN s |->
                           IF x = {} THEN base
                           ELSE g[x \ {Max(x)}] + lens[s[Max(x)]]]
           F == [p \in (1..n) \X V |-> p[2] + lens[s[p[1]]]]
<1>1. F \in [(1..n) \X V -> V]
  OBVIOUS
<1>2. PICK g \in [SUBSET (1..n) -> V] : Folds(g, n, base, F)
  <2> HIDE DEF F
  <2> QED BY <1>1, FoldExists, Zenon
<1>3. ASSUME NEW x \in SUBSET (1..n), x # {}
      PROVE  F[<<Max(x), g[x \ {Max(x)}]>>] = g[x \ {Max(x)}] + lens[s[Max(x)]]
  <2>1. Max(x) \in 1..n
    BY <1>3, MaxOfSet
  <2>2. g[x \ {Max(x)}] \in V
    OBVIOUS
  <2> QED BY <2>1, <2>2
<1>4. Is(g)
  <2> HIDE DEF F
  <2> QED BY <1>2, <1>3 DEF Folds
<1> DEFINE iter == CHOOSE h : Is(h)
<1>5. Is(iter)
  <2> HIDE DEF Is
  <2> QED BY <1>4
<1>6. Load(bin, lens) = iter[DOMAIN s]
  BY Zenon DEF Load, FoldLeft, MapThenFoldSet
<1>7. iter[{}] = base
  <2> HIDE DEF iter
  <2> QED BY <1>5
<1>8. ASSUME NEW x \in SUBSET (1..n), x # {}, iter[x \ {Max(x)}] \in V
      PROVE  iter[x] = F[<<Max(x), iter[x \ {Max(x)}]>>]
  <2>1. Max(x) \in 1..n
    BY <1>8, MaxOfSet
  <2>2. iter[x] = iter[x \ {Max(x)}] + lens[s[Max(x)]]
    <3> HIDE DEF iter
    <3> QED BY <1>5, <1>8
  <2> HIDE DEF iter
  <2> QED BY <1>8, <2>1, <2>2
<1> HIDE DEF iter, Is
<1>9. PICK st \in [0..n -> V] : IsTrace(st, n, base, F) /\ iter[1..n] = st[n]
  <2> HIDE DEF F
  <2>1. Recurses(iter, n, base, V, F)
    BY <1>7, <1>8 DEF Recurses
  <2>2. Traced(iter[1..n], n, base, V, F)
    BY ONLY <1>1, <2>1, base \in V, n \in Nat, FoldTrace
  <2> QED BY <2>2, Zenon DEF Traced
<1>10. ASSUME NEW k \in 1..n PROVE st[k] = st[k - 1] + lens[s[k]]
  <2>1. st[k - 1] \in V
    OBVIOUS
  <2> QED BY <1>9, <2>1 DEF IsTrace
<1> HIDE DEF F
<1> QED BY <1>6, <1>9, <1>10, Zenon DEF IsTrace, LoadStepsIn

\* The widest, step by step.
WidestStepsIn(V, n, base, s, lens) ==
  \E st \in [0..n -> V] :
    /\ st[0] = base /\ Widest(lens) = st[n]
    /\ \A k \in 1..n : st[k] = WiderOf(st[k - 1], s[k])

\* Widest runs through such values in any set V closed under the comparison.
LEMMA WidestSteps ==
  ASSUME NEW lens, NEW V, NEW base \in V, base = 0,
         NEW s, s = lens, NEW n \in Nat, DOMAIN s = 1..n,
         \A a \in V : \A i \in 1..n : WiderOf(a, s[i]) \in V
  PROVE  WidestStepsIn(V, n, base, s, lens)
<1> DEFINE Is(g) == g = [x \in SUBSET DOMAIN s |->
                           IF x = {} THEN base
                           ELSE WiderOf(g[x \ {Max(x)}], s[Max(x)])]
           F == [p \in (1..n) \X V |-> WiderOf(p[2], s[p[1]])]
<1>1. F \in [(1..n) \X V -> V]
  OBVIOUS
<1>2. PICK g \in [SUBSET (1..n) -> V] : Folds(g, n, base, F)
  <2> HIDE DEF F
  <2> QED BY <1>1, FoldExists, Zenon
<1>3. ASSUME NEW x \in SUBSET (1..n), x # {}
      PROVE  F[<<Max(x), g[x \ {Max(x)}]>>] = WiderOf(g[x \ {Max(x)}], s[Max(x)])
  <2>1. Max(x) \in 1..n
    BY <1>3, MaxOfSet
  <2>2. g[x \ {Max(x)}] \in V
    OBVIOUS
  <2> QED BY <2>1, <2>2
<1>4. Is(g)
  <2> HIDE DEF F
  <2> QED BY <1>2, <1>3 DEF Folds
<1> DEFINE iter == CHOOSE h : Is(h)
<1>5. Is(iter)
  <2> HIDE DEF Is
  <2> QED BY <1>4
<1>6. Widest(lens) = iter[DOMAIN s]
  BY Zenon DEF Widest, WiderOf, FoldLeft, MapThenFoldSet
<1>7. iter[{}] = base
  <2> HIDE DEF iter
  <2> QED BY <1>5
<1>8. ASSUME NEW x \in SUBSET (1..n), x # {}, iter[x \ {Max(x)}] \in V
      PROVE  iter[x] = F[<<Max(x), iter[x \ {Max(x)}]>>]
  <2>1. Max(x) \in 1..n
    BY <1>8, MaxOfSet
  <2>2. iter[x] = WiderOf(iter[x \ {Max(x)}], s[Max(x)])
    <3> HIDE DEF iter
    <3> QED BY <1>5, <1>8
  <2> HIDE DEF iter
  <2> QED BY <1>8, <2>1, <2>2
<1> HIDE DEF iter, Is
<1>9. PICK st \in [0..n -> V] : IsTrace(st, n, base, F) /\ iter[1..n] = st[n]
  <2> HIDE DEF F
  <2>1. Recurses(iter, n, base, V, F)
    BY <1>7, <1>8 DEF Recurses
  <2>2. Traced(iter[1..n], n, base, V, F)
    BY ONLY <1>1, <2>1, base \in V, n \in Nat, FoldTrace
  <2> QED BY <2>2, Zenon DEF Traced
<1>10. ASSUME NEW k \in 1..n PROVE st[k] = WiderOf(st[k - 1], s[k])
  <2>1. st[k - 1] \in V
    OBVIOUS
  <2> QED BY <1>9, <2>1 DEF IsTrace
<1> HIDE DEF F
<1> QED BY <1>6, <1>9, <1>10, Zenon DEF IsTrace, WidestStepsIn

\* The loop of ConcatenativePacker, step by step.
ConcatenativeStepsIn(V, n, base, s, lens, cap) ==
  \E st \in [0..n -> V] :
    /\ st[0] = base /\ Concatenative(lens, cap) = st[n]
    /\ \A k \in 1..n : st[k] = PlaceNext(st[k - 1], s[k], lens, cap)

\* The packer runs through such lists of bins in any set V that its step does not
\* leave.
LEMMA ConcatenativeSteps ==
  ASSUME NEW lens, NEW cap, NEW V, NEW base \in V, base = <<>>,
         NEW s, s = Indices(lens), NEW n \in Nat, DOMAIN s = 1..n,
         \A a \in V : \A i \in 1..n : PlaceNext(a, s[i], lens, cap) \in V
  PROVE  ConcatenativeStepsIn(V, n, base, s, lens, cap)
<1> DEFINE Is(g) == g = [x \in SUBSET DOMAIN s |->
                           IF x = {} THEN base
                           ELSE PlaceNext(g[x \ {Max(x)}], s[Max(x)], lens, cap)]
           F == [p \in (1..n) \X V |-> PlaceNext(p[2], s[p[1]], lens, cap)]
<1>1. F \in [(1..n) \X V -> V]
  OBVIOUS
<1>2. PICK g \in [SUBSET (1..n) -> V] : Folds(g, n, base, F)
  <2> HIDE DEF F
  <2> QED BY <1>1, FoldExists, Zenon
<1>3. ASSUME NEW x \in SUBSET (1..n), x # {}
      PROVE  F[<<Max(x), g[x \ {Max(x)}]>>] = PlaceNext(g[x \ {Max(x)}], s[Max(x)], lens, cap)
  <2>1. Max(x) \in 1..n
    BY <1>3, MaxOfSet
  <2>2. g[x \ {Max(x)}] \in V
    OBVIOUS
  <2> QED BY <2>1, <2>2
<1>4. Is(g)
  <2> HIDE DEF F
  <2> QED BY <1>2, <1>3 DEF Folds
<1> DEFINE iter == CHOOSE h : Is(h)
<1>5. Is(iter)
  <2> HIDE DEF Is
  <2> QED BY <1>4
<1>6. Concatenative(lens, cap) = iter[DOMAIN s]
  BY Zenon DEF Concatenative, FoldLeft, MapThenFoldSet
<1>7. iter[{}] = base
  <2> HIDE DEF iter
  <2> QED BY <1>5
<1>8. ASSUME NEW x \in SUBSET (1..n), x # {}, iter[x \ {Max(x)}] \in V
      PROVE  iter[x] = F[<<Max(x), iter[x \ {Max(x)}]>>]
  <2>1. Max(x) \in 1..n
    BY <1>8, MaxOfSet
  <2>2. iter[x] = PlaceNext(iter[x \ {Max(x)}], s[Max(x)], lens, cap)
    <3> HIDE DEF iter
    <3> QED BY <1>5, <1>8
  <2> HIDE DEF iter
  <2> QED BY <1>8, <2>1, <2>2
<1> HIDE DEF iter, Is
<1>9. PICK st \in [0..n -> V] : IsTrace(st, n, base, F) /\ iter[1..n] = st[n]
  <2> HIDE DEF F
  <2>1. Recurses(iter, n, base, V, F)
    BY <1>7, <1>8 DEF Recurses
  <2>2. Traced(iter[1..n], n, base, V, F)
    BY ONLY <1>1, <2>1, base \in V, n \in Nat, FoldTrace
  <2> QED BY <2>2, Zenon DEF Traced
<1>10. ASSUME NEW k \in 1..n PROVE st[k] = PlaceNext(st[k - 1], s[k], lens, cap)
  <2>1. st[k - 1] \in V
    OBVIOUS
  <2> QED BY <1>9, <2>1 DEF IsTrace
<1> HIDE DEF F
<1> QED BY <1>6, <1>9, <1>10, Zenon DEF IsTrace, ConcatenativeStepsIn

\* The loop of FirstFitPacker, step by step.
FirstFitStepsIn(V, n, base, s, order, lens, cap) ==
  \E st \in [0..n -> V] :
    /\ st[0] = base /\ FirstFit(order, lens, cap) = st[n]
    /\ \A k \in 1..n : st[k] = PlaceFirst(st[k - 1], s[k], lens, cap)

\* The packer runs through such lists of bins in any set V that its step does not
\* leave.
LEMMA FirstFitSteps ==
  ASSUME NEW order, NEW lens, NEW cap, NEW V, NEW base \in V, base = <<>>,
         NEW s, s = order, NEW n \in Nat, DOMAIN s = 1..n,
         \A a \in V : \A i \in 1..n : PlaceFirst(a, s[i], lens, cap) \in V
  PROVE  FirstFitStepsIn(V, n, base, s, order, lens, cap)
<1> DEFINE Is(g) == g = [x \in SUBSET DOMAIN s |->
                           IF x = {} THEN base
                           ELSE PlaceFirst(g[x \ {Max(x)}], s[Max(x)], lens, cap)]
           F == [p \in (1..n) \X V |-> PlaceFirst(p[2], s[p[1]], lens, cap)]
<1>1. F \in [(1..n) \X V -> V]
  OBVIOUS
<1>2. PICK g \in [SUBSET (1..n) -> V] : Folds(g, n, base, F)
  <2> HIDE DEF F
  <2> QED BY <1>1, FoldExists, Zenon
<1>3. ASSUME NEW x \in SUBSET (1..n), x # {}
      PROVE  F[<<Max(x), g[x \ {Max(x)}]>>] = PlaceFirst(g[x \ {Max(x)}], s[Max(x)], lens, cap)
  <2>1. Max(x) \in 1..n
    BY <1>3, MaxOfSet
  <2>2. g[x \ {Max(x)}] \in V
    OBVIOUS
  <2> QED BY <2>1, <2>2
<1>4. Is(g)
  <2> HIDE DEF F
  <2> QED BY <1>2, <1>3 DEF Folds
<1> DEFINE iter == CHOOSE h : Is(h)
<1>5. Is(iter)
  <2> HIDE DEF Is
  <2> QED BY <1>4
<1>6. FirstFit(order, lens, cap) = iter[DOMAIN s]
  BY Zenon DEF FirstFit, FoldLeft, MapThenFoldSet
<1>7. iter[{}] = base
  <2> HIDE DEF iter
  <2> QED BY <1>5
<1>8. ASSUME NEW x \in SUBSET (1..n), x # {}, iter[x \ {Max(x)}] \in V
      PROVE  iter[x] = F[<<Max(x), iter[x \ {Max(x)}]>>]
  <2>1. Max(x) \in 1..n
    BY <1>8, MaxOfSet
  <2>2. iter[x] = PlaceFirst(iter[x \ {Max(x)}], s[Max(x)], lens, cap)
    <3> HIDE DEF iter
    <3> QED BY <1>5, <1>8
  <2> HIDE DEF iter
  <2> QED BY <1>8, <2>1, <2>2
<1> HIDE DEF iter, Is
<1>9. PICK st \in [0..n -> V] : IsTrace(st, n, base, F) /\ iter[1..n] = st[n]
  <2> HIDE DEF F
  <2>1. Recurses(iter, n, base, V, F)
    BY <1>7, <1>8 DEF Recurses
  <2>2. Traced(iter[1..n], n, base, V, F)
    BY ONLY <1>1, <2>1, base \in V, n \in Nat, FoldTrace
  <2> QED BY <2>2, Zenon DEF Traced
<1>10. ASSUME NEW k \in 1..n PROVE st[k] = PlaceFirst(st[k - 1], s[k], lens, cap)
  <2>1. st[k - 1] \in V
    OBVIOUS
  <2> QED BY <1>9, <2>1 DEF IsTrace
<1> HIDE DEF F
<1> QED BY <1>6, <1>9, <1>10, Zenon DEF IsTrace, FirstFitStepsIn

\* Phase 2, step by step.
AddMediumStepsIn(V, n, base, s, start, lens, cap) ==
  \E st \in [0..n -> V] :
    /\ st[0] = base /\ AddMedium(start, lens, cap) = st[n]
    /\ \A k \in 1..n : st[k] = WithMedium(st[k - 1], s[k], lens, cap)

\* Phase 2 runs through such states in any set V that its step does not leave.
LEMMA AddMediumSteps ==
  ASSUME NEW start, NEW lens, NEW cap, NEW V, NEW base \in V, base = [start EXCEPT !.bins = <<>>],
         NEW s, s = start.bins, NEW n \in Nat, DOMAIN s = 1..n,
         \A a \in V : \A i \in 1..n : WithMedium(a, s[i], lens, cap) \in V
  PROVE  AddMediumStepsIn(V, n, base, s, start, lens, cap)
<1> DEFINE Is(g) == g = [x \in SUBSET DOMAIN s |->
                           IF x = {} THEN base
                           ELSE WithMedium(g[x \ {Max(x)}], s[Max(x)], lens, cap)]
           F == [p \in (1..n) \X V |-> WithMedium(p[2], s[p[1]], lens, cap)]
<1>1. F \in [(1..n) \X V -> V]
  OBVIOUS
<1>2. PICK g \in [SUBSET (1..n) -> V] : Folds(g, n, base, F)
  <2> HIDE DEF F
  <2> QED BY <1>1, FoldExists, Zenon
<1>3. ASSUME NEW x \in SUBSET (1..n), x # {}
      PROVE  F[<<Max(x), g[x \ {Max(x)}]>>] = WithMedium(g[x \ {Max(x)}], s[Max(x)], lens, cap)
  <2>1. Max(x) \in 1..n
    BY <1>3, MaxOfSet
  <2>2. g[x \ {Max(x)}] \in V
    OBVIOUS
  <2> QED BY <2>1, <2>2
<1>4. Is(g)
  <2> HIDE DEF F
  <2> QED BY <1>2, <1>3 DEF Folds
<1> DEFINE iter == CHOOSE h : Is(h)
<1>5. Is(iter)
  <2> HIDE DEF Is
  <2> QED BY <1>4
<1>6. AddMedium(start, lens, cap) = iter[DOMAIN s]
  BY Zenon DEF AddMedium, FoldLeft, MapThenFoldSet
<1>7. iter[{}] = base
  <2> HIDE DEF iter
  <2> QED BY <1>5
<1>8. ASSUME NEW x \in SUBSET (1..n), x # {}, iter[x \ {Max(x)}] \in V
      PROVE  iter[x] = F[<<Max(x), iter[x \ {Max(x)}]>>]
  <2>1. Max(x) \in 1..n
    BY <1>8, MaxOfSet
  <2>2. iter[x] = WithMedium(iter[x \ {Max(x)}], s[Max(x)], lens, cap)
    <3> HIDE DEF iter
    <3> QED BY <1>5, <1>8
  <2> HIDE DEF iter
  <2> QED BY <1>8, <2>1, <2>2
<1> HIDE DEF iter, Is
<1>9. PICK st \in [0..n -> V] : IsTrace(st, n, base, F) /\ iter[1..n] = st[n]
  <2> HIDE DEF F
  <2>1. Recurses(iter, n, base, V, F)
    BY <1>7, <1>8 DEF Recurses
  <2>2. Traced(iter[1..n], n, base, V, F)
    BY ONLY <1>1, <2>1, base \in V, n \in Nat, FoldTrace
  <2> QED BY <2>2, Zenon DEF Traced
<1>10. ASSUME NEW k \in 1..n PROVE st[k] = WithMedium(st[k - 1], s[k], lens, cap)
  <2>1. st[k - 1] \in V
    OBVIOUS
  <2> QED BY <1>9, <2>1 DEF IsTrace
<1> HIDE DEF F
<1> QED BY <1>6, <1>9, <1>10, Zenon DEF IsTrace, AddMediumStepsIn

\* Phase 3, step by step.
AddSmallStepsIn(V, n, base, s, start, lens, cap) ==
  \E st \in [0..n -> V] :
    /\ st[0] = base /\ AddSmall(start, lens, cap) = st[n]
    /\ \A k \in 1..n : st[k] = WithSmall(st[k - 1], s[k], lens, cap)

\* Phase 3 runs through such states in any set V that its step does not leave.
LEMMA AddSmallSteps ==
  ASSUME NEW start, NEW lens, NEW cap, NEW V, NEW base \in V, base = [start EXCEPT !.bins = <<>>],
         NEW s, s = Reverse(start.bins), NEW n \in Nat, DOMAIN s = 1..n,
         \A a \in V : \A i \in 1..n : WithSmall(a, s[i], lens, cap) \in V
  PROVE  AddSmallStepsIn(V, n, base, s, start, lens, cap)
<1> DEFINE Is(g) == g = [x \in SUBSET DOMAIN s |->
                           IF x = {} THEN base
                           ELSE WithSmall(g[x \ {Max(x)}], s[Max(x)], lens, cap)]
           F == [p \in (1..n) \X V |-> WithSmall(p[2], s[p[1]], lens, cap)]
<1>1. F \in [(1..n) \X V -> V]
  OBVIOUS
<1>2. PICK g \in [SUBSET (1..n) -> V] : Folds(g, n, base, F)
  <2> HIDE DEF F
  <2> QED BY <1>1, FoldExists, Zenon
<1>3. ASSUME NEW x \in SUBSET (1..n), x # {}
      PROVE  F[<<Max(x), g[x \ {Max(x)}]>>] = WithSmall(g[x \ {Max(x)}], s[Max(x)], lens, cap)
  <2>1. Max(x) \in 1..n
    BY <1>3, MaxOfSet
  <2>2. g[x \ {Max(x)}] \in V
    OBVIOUS
  <2> QED BY <2>1, <2>2
<1>4. Is(g)
  <2> HIDE DEF F
  <2> QED BY <1>2, <1>3 DEF Folds
<1> DEFINE iter == CHOOSE h : Is(h)
<1>5. Is(iter)
  <2> HIDE DEF Is
  <2> QED BY <1>4
<1>6. AddSmall(start, lens, cap) = iter[DOMAIN s]
  BY Zenon DEF AddSmall, FoldLeft, MapThenFoldSet
<1>7. iter[{}] = base
  <2> HIDE DEF iter
  <2> QED BY <1>5
<1>8. ASSUME NEW x \in SUBSET (1..n), x # {}, iter[x \ {Max(x)}] \in V
      PROVE  iter[x] = F[<<Max(x), iter[x \ {Max(x)}]>>]
  <2>1. Max(x) \in 1..n
    BY <1>8, MaxOfSet
  <2>2. iter[x] = WithSmall(iter[x \ {Max(x)}], s[Max(x)], lens, cap)
    <3> HIDE DEF iter
    <3> QED BY <1>5, <1>8
  <2> HIDE DEF iter
  <2> QED BY <1>8, <2>1, <2>2
<1> HIDE DEF iter, Is
<1>9. PICK st \in [0..n -> V] : IsTrace(st, n, base, F) /\ iter[1..n] = st[n]
  <2> HIDE DEF F
  <2>1. Recurses(iter, n, base, V, F)
    BY <1>7, <1>8 DEF Recurses
  <2>2. Traced(iter[1..n], n, base, V, F)
    BY ONLY <1>1, <2>1, base \in V, n \in Nat, FoldTrace
  <2> QED BY <2>2, Zenon DEF Traced
<1>10. ASSUME NEW k \in 1..n PROVE st[k] = WithSmall(st[k - 1], s[k], lens, cap)
  <2>1. st[k - 1] \in V
    OBVIOUS
  <2> QED BY <1>9, <2>1 DEF IsTrace
<1> HIDE DEF F
<1> QED BY <1>6, <1>9, <1>10, Zenon DEF IsTrace, AddSmallStepsIn

\* The filling of a bin, step by step.
FilledStepsIn(V, n, base, s, bin, rest, lens, cap) ==
  \E st \in [0..n -> V] :
    /\ st[0] = base /\ Filled(bin, rest, lens, cap) = st[n]
    /\ \A k \in 1..n : st[k] = TakeIfFits(st[k - 1], s[k], lens, cap)

\* The filling runs through such states in any set V that its step does not leave.
LEMMA FilledSteps ==
  ASSUME NEW bin, NEW rest, NEW lens, NEW cap, NEW V, NEW base \in V, base = [bin |-> bin, rest |-> <<>>],
         NEW s, s = rest, NEW n \in Nat, DOMAIN s = 1..n,
         \A a \in V : \A i \in 1..n : TakeIfFits(a, s[i], lens, cap) \in V
  PROVE  FilledStepsIn(V, n, base, s, bin, rest, lens, cap)
<1> DEFINE Is(g) == g = [x \in SUBSET DOMAIN s |->
                           IF x = {} THEN base
                           ELSE TakeIfFits(g[x \ {Max(x)}], s[Max(x)], lens, cap)]
           F == [p \in (1..n) \X V |-> TakeIfFits(p[2], s[p[1]], lens, cap)]
<1>1. F \in [(1..n) \X V -> V]
  OBVIOUS
<1>2. PICK g \in [SUBSET (1..n) -> V] : Folds(g, n, base, F)
  <2> HIDE DEF F
  <2> QED BY <1>1, FoldExists, Zenon
<1>3. ASSUME NEW x \in SUBSET (1..n), x # {}
      PROVE  F[<<Max(x), g[x \ {Max(x)}]>>] = TakeIfFits(g[x \ {Max(x)}], s[Max(x)], lens, cap)
  <2>1. Max(x) \in 1..n
    BY <1>3, MaxOfSet
  <2>2. g[x \ {Max(x)}] \in V
    OBVIOUS
  <2> QED BY <2>1, <2>2
<1>4. Is(g)
  <2> HIDE DEF F
  <2> QED BY <1>2, <1>3 DEF Folds
<1> DEFINE iter == CHOOSE h : Is(h)
<1>5. Is(iter)
  <2> HIDE DEF Is
  <2> QED BY <1>4
<1>6. Filled(bin, rest, lens, cap) = iter[DOMAIN s]
  BY Zenon DEF Filled, FoldLeft, MapThenFoldSet
<1>7. iter[{}] = base
  <2> HIDE DEF iter
  <2> QED BY <1>5
<1>8. ASSUME NEW x \in SUBSET (1..n), x # {}, iter[x \ {Max(x)}] \in V
      PROVE  iter[x] = F[<<Max(x), iter[x \ {Max(x)}]>>]
  <2>1. Max(x) \in 1..n
    BY <1>8, MaxOfSet
  <2>2. iter[x] = TakeIfFits(iter[x \ {Max(x)}], s[Max(x)], lens, cap)
    <3> HIDE DEF iter
    <3> QED BY <1>5, <1>8
  <2> HIDE DEF iter
  <2> QED BY <1>8, <2>1, <2>2
<1> HIDE DEF iter, Is
<1>9. PICK st \in [0..n -> V] : IsTrace(st, n, base, F) /\ iter[1..n] = st[n]
  <2> HIDE DEF F
  <2>1. Recurses(iter, n, base, V, F)
    BY <1>7, <1>8 DEF Recurses
  <2>2. Traced(iter[1..n], n, base, V, F)
    BY ONLY <1>1, <2>1, base \in V, n \in Nat, FoldTrace
  <2> QED BY <2>2, Zenon DEF Traced
<1>10. ASSUME NEW k \in 1..n PROVE st[k] = TakeIfFits(st[k - 1], s[k], lens, cap)
  <2>1. st[k - 1] \in V
    OBVIOUS
  <2> QED BY <1>9, <2>1 DEF IsTrace
<1> HIDE DEF F
<1> QED BY <1>6, <1>9, <1>10, Zenon DEF IsTrace, FilledStepsIn

\* Phase 4, step by step.
FillGreedilyStepsIn(V, n, base, s, start, lens, cap) ==
  \E st \in [0..n -> V] :
    /\ st[0] = base /\ FillGreedily(start, lens, cap) = st[n]
    /\ \A k \in 1..n : st[k] = FillNext(st[k - 1], s[k], lens, cap)

\* Phase 4 runs through such states in any set V that its step does not leave.
LEMMA FillGreedilySteps ==
  ASSUME NEW start, NEW lens, NEW cap, NEW V, NEW base \in V, base = [start EXCEPT !.bins = <<>>],
         NEW s, s = start.bins, NEW n \in Nat, DOMAIN s = 1..n,
         \A a \in V : \A i \in 1..n : FillNext(a, s[i], lens, cap) \in V
  PROVE  FillGreedilyStepsIn(V, n, base, s, start, lens, cap)
<1> DEFINE Is(g) == g = [x \in SUBSET DOMAIN s |->
                           IF x = {} THEN base
                           ELSE FillNext(g[x \ {Max(x)}], s[Max(x)], lens, cap)]
           F == [p \in (1..n) \X V |-> FillNext(p[2], s[p[1]], lens, cap)]
<1>1. F \in [(1..n) \X V -> V]
  OBVIOUS
<1>2. PICK g \in [SUBSET (1..n) -> V] : Folds(g, n, base, F)
  <2> HIDE DEF F
  <2> QED BY <1>1, FoldExists, Zenon
<1>3. ASSUME NEW x \in SUBSET (1..n), x # {}
      PROVE  F[<<Max(x), g[x \ {Max(x)}]>>] = FillNext(g[x \ {Max(x)}], s[Max(x)], lens, cap)
  <2>1. Max(x) \in 1..n
    BY <1>3, MaxOfSet
  <2>2. g[x \ {Max(x)}] \in V
    OBVIOUS
  <2> QED BY <2>1, <2>2
<1>4. Is(g)
  <2> HIDE DEF F
  <2> QED BY <1>2, <1>3 DEF Folds
<1> DEFINE iter == CHOOSE h : Is(h)
<1>5. Is(iter)
  <2> HIDE DEF Is
  <2> QED BY <1>4
<1>6. FillGreedily(start, lens, cap) = iter[DOMAIN s]
  BY Zenon DEF FillGreedily, FoldLeft, MapThenFoldSet
<1>7. iter[{}] = base
  <2> HIDE DEF iter
  <2> QED BY <1>5
<1>8. ASSUME NEW x \in SUBSET (1..n), x # {}, iter[x \ {Max(x)}] \in V
      PROVE  iter[x] = F[<<Max(x), iter[x \ {Max(x)}]>>]
  <2>1. Max(x) \in 1..n
    BY <1>8, MaxOfSet
  <2>2. iter[x] = FillNext(iter[x \ {Max(x)}], s[Max(x)], lens, cap)
    <3> HIDE DEF iter
    <3> QED BY <1>5, <1>8
  <2> HIDE DEF iter
  <2> QED BY <1>8, <2>1, <2>2
<1> HIDE DEF iter, Is
<1>9. PICK st \in [0..n -> V] : IsTrace(st, n, base, F) /\ iter[1..n] = st[n]
  <2> HIDE DEF F
  <2>1. Recurses(iter, n, base, V, F)
    BY <1>7, <1>8 DEF Recurses
  <2>2. Traced(iter[1..n], n, base, V, F)
    BY ONLY <1>1, <2>1, base \in V, n \in Nat, FoldTrace
  <2> QED BY <2>2, Zenon DEF Traced
<1>10. ASSUME NEW k \in 1..n PROVE st[k] = FillNext(st[k - 1], s[k], lens, cap)
  <2>1. st[k - 1] \in V
    OBVIOUS
  <2> QED BY <1>9, <2>1 DEF IsTrace
<1> HIDE DEF F
<1> QED BY <1>6, <1>9, <1>10, Zenon DEF IsTrace, FillGreedilyStepsIn

\* Phase 5, step by step.
NewBinsStepsIn(V, n, base, s, rest, lens, cap) ==
  \E st \in [0..n -> V] :
    /\ st[0] = base /\ NewBins(rest, lens, cap) = st[n]
    /\ \A k \in 1..n : st[k] = PlaceEmptiest(st[k - 1], s[k], lens, cap)

\* Phase 5 runs through such lists of bins in any set V that its step does not
\* leave.
LEMMA NewBinsSteps ==
  ASSUME NEW rest, NEW lens, NEW cap, NEW V, NEW base \in V, base = << <<>> >>,
         NEW s, s = rest, NEW n \in Nat, DOMAIN s = 1..n,
         \A a \in V : \A i \in 1..n : PlaceEmptiest(a, s[i], lens, cap) \in V
  PROVE  NewBinsStepsIn(V, n, base, s, rest, lens, cap)
<1> DEFINE Is(g) == g = [x \in SUBSET DOMAIN s |->
                           IF x = {} THEN base
                           ELSE PlaceEmptiest(g[x \ {Max(x)}], s[Max(x)], lens, cap)]
           F == [p \in (1..n) \X V |-> PlaceEmptiest(p[2], s[p[1]], lens, cap)]
<1>1. F \in [(1..n) \X V -> V]
  OBVIOUS
<1>2. PICK g \in [SUBSET (1..n) -> V] : Folds(g, n, base, F)
  <2> HIDE DEF F
  <2> QED BY <1>1, FoldExists, Zenon
<1>3. ASSUME NEW x \in SUBSET (1..n), x # {}
      PROVE  F[<<Max(x), g[x \ {Max(x)}]>>] = PlaceEmptiest(g[x \ {Max(x)}], s[Max(x)], lens, cap)
  <2>1. Max(x) \in 1..n
    BY <1>3, MaxOfSet
  <2>2. g[x \ {Max(x)}] \in V
    OBVIOUS
  <2> QED BY <2>1, <2>2
<1>4. Is(g)
  <2> HIDE DEF F
  <2> QED BY <1>2, <1>3 DEF Folds
<1> DEFINE iter == CHOOSE h : Is(h)
<1>5. Is(iter)
  <2> HIDE DEF Is
  <2> QED BY <1>4
<1>6. NewBins(rest, lens, cap) = iter[DOMAIN s]
  BY Zenon DEF NewBins, FoldLeft, MapThenFoldSet
<1>7. iter[{}] = base
  <2> HIDE DEF iter
  <2> QED BY <1>5
<1>8. ASSUME NEW x \in SUBSET (1..n), x # {}, iter[x \ {Max(x)}] \in V
      PROVE  iter[x] = F[<<Max(x), iter[x \ {Max(x)}]>>]
  <2>1. Max(x) \in 1..n
    BY <1>8, MaxOfSet
  <2>2. iter[x] = PlaceEmptiest(iter[x \ {Max(x)}], s[Max(x)], lens, cap)
    <3> HIDE DEF iter
    <3> QED BY <1>5, <1>8
  <2> HIDE DEF iter
  <2> QED BY <1>8, <2>1, <2>2
<1> HIDE DEF iter, Is
<1>9. PICK st \in [0..n -> V] : IsTrace(st, n, base, F) /\ iter[1..n] = st[n]
  <2> HIDE DEF F
  <2>1. Recurses(iter, n, base, V, F)
    BY <1>7, <1>8 DEF Recurses
  <2>2. Traced(iter[1..n], n, base, V, F)
    BY ONLY <1>1, <2>1, base \in V, n \in Nat, FoldTrace
  <2> QED BY <2>2, Zenon DEF Traced
<1>10. ASSUME NEW k \in 1..n PROVE st[k] = PlaceEmptiest(st[k - 1], s[k], lens, cap)
  <2>1. st[k - 1] \in V
    OBVIOUS
  <2> QED BY <1>9, <2>1 DEF IsTrace
<1> HIDE DEF F
<1> QED BY <1>6, <1>9, <1>10, Zenon DEF IsTrace, NewBinsStepsIn

\* The loop of _adjust_bin_count, step by step.
SplitStepsIn(V, n, base, s, bins, bySize, more) ==
  \E st \in [0..n -> V] :
    /\ st[0] = base /\ SplitAgain(bins, bySize, more) = st[n]
    /\ \A k \in 1..n : st[k] = Split(st[k - 1], bySize)

\* The loop runs through such lists of bins in any set V that its step does not
\* leave.
LEMMA SplitSteps ==
  ASSUME NEW bins, NEW bySize, NEW more, NEW V, NEW base \in V, base = bins,
         NEW s, s = [m \in 1..more |-> m], NEW n \in Nat, DOMAIN s = 1..n,
         \A a \in V : \A i \in 1..n : Split(a, bySize) \in V
  PROVE  SplitStepsIn(V, n, base, s, bins, bySize, more)
<1> DEFINE Is(g) == g = [x \in SUBSET DOMAIN s |->
                           IF x = {} THEN base
                           ELSE Split(g[x \ {Max(x)}], bySize)]
           F == [p \in (1..n) \X V |-> Split(p[2], bySize)]
<1>1. F \in [(1..n) \X V -> V]
  OBVIOUS
<1>2. PICK g \in [SUBSET (1..n) -> V] : Folds(g, n, base, F)
  <2> HIDE DEF F
  <2> QED BY <1>1, FoldExists, Zenon
<1>3. ASSUME NEW x \in SUBSET (1..n), x # {}
      PROVE  F[<<Max(x), g[x \ {Max(x)}]>>] = Split(g[x \ {Max(x)}], bySize)
  <2>1. Max(x) \in 1..n
    BY <1>3, MaxOfSet
  <2>2. g[x \ {Max(x)}] \in V
    OBVIOUS
  <2> QED BY <2>1, <2>2
<1>4. Is(g)
  <2> HIDE DEF F
  <2> QED BY <1>2, <1>3 DEF Folds
<1> DEFINE iter == CHOOSE h : Is(h)
<1>5. Is(iter)
  <2> HIDE DEF Is
  <2> QED BY <1>4
<1>6. SplitAgain(bins, bySize, more) = iter[DOMAIN s]
  BY Zenon DEF SplitAgain, FoldLeft, MapThenFoldSet
<1>7. iter[{}] = base
  <2> HIDE DEF iter
  <2> QED BY <1>5
<1>8. ASSUME NEW x \in SUBSET (1..n), x # {}, iter[x \ {Max(x)}] \in V
      PROVE  iter[x] = F[<<Max(x), iter[x \ {Max(x)}]>>]
  <2>1. Max(x) \in 1..n
    BY <1>8, MaxOfSet
  <2>2. iter[x] = Split(iter[x \ {Max(x)}], bySize)
    <3> HIDE DEF iter
    <3> QED BY <1>5, <1>8
  <2> HIDE DEF iter
  <2> QED BY <1>8, <2>1, <2>2
<1> HIDE DEF iter, Is
<1>9. PICK st \in [0..n -> V] : IsTrace(st, n, base, F) /\ iter[1..n] = st[n]
  <2> HIDE DEF F
  <2>1. Recurses(iter, n, base, V, F)
    BY <1>7, <1>8 DEF Recurses
  <2>2. Traced(iter[1..n], n, base, V, F)
    BY ONLY <1>1, <2>1, base \in V, n \in Nat, FoldTrace
  <2> QED BY <2>2, Zenon DEF Traced
<1>10. ASSUME NEW k \in 1..n PROVE st[k] = Split(st[k - 1], bySize)
  <2>1. st[k - 1] \in V
    OBVIOUS
  <2> QED BY <1>9, <2>1 DEF IsTrace
<1> HIDE DEF F
<1> QED BY <1>6, <1>9, <1>10, Zenon DEF IsTrace, SplitStepsIn

-----------------------------------------------------------------------------
(* Loads *)

\* Every index of I has a length.
Weighs(lens, I) == \A i \in I : lens[i] \in Nat

\* The lengths of the sequences in a bin.
LensOf(bin, lens) == [k \in 1..Len(bin) |-> lens[bin[k]]]

\* The load of a bin is the total of their lengths.
LEMMA LoadIsTotal ==
  ASSUME NEW I, NEW bin \in Seq(I), NEW lens, Weighs(lens, I)
  PROVE  /\ LensOf(bin, lens) \in Seq(Nat) /\ Load(bin, lens) \in Nat
         /\ IsTotal(LensOf(bin, lens), Load(bin, lens))
<1> DEFINE n == Len(bin)
           d == LensOf(bin, lens)
<1>1. n \in Nat /\ DOMAIN bin = 1..n /\ \A k \in 1..n : bin[k] \in I /\ lens[bin[k]] \in Nat
  BY DEF Weighs
<1>2. /\ d \in Seq(Nat) /\ Len(d) = n /\ \A k \in 1..n : d[k] = lens[bin[k]]
      /\ d \in Seq(Int)
  BY <1>1 DEF LensOf
<1>3. \A a \in Nat : \A k \in 1..n : a + lens[bin[k]] \in Nat
  BY <1>1
<1> HIDE DEF n, d
<1>4. LoadStepsIn(Nat, n, 0, bin, bin, lens)
  BY ONLY <1>1, <1>3, 0 \in Nat, LoadSteps
<1>5. PICK st \in [0..n -> Nat] :
        /\ st[0] = 0 /\ Load(bin, lens) = st[n]
        /\ \A k \in 1..n : st[k] = st[k - 1] + lens[bin[k]]
  BY <1>4, Zenon DEF LoadStepsIn
<1>6. st \in [0..n -> Int] /\ st[n] \in Nat
  BY <1>1
<1>7. IsTotal(d, Load(bin, lens))
  BY <1>2, <1>5, <1>6 DEF IsTotal
<1> QED BY <1>2, <1>5, <1>6, <1>7 DEF d

\* Bins of the same lengths have the same load.
LEMMA LoadsAlike ==
  ASSUME NEW I, NEW bin \in Seq(I), NEW lens, Weighs(lens, I),
         NEW J, NEW other \in Seq(J), NEW sizes, Weighs(sizes, J),
         LensOf(bin, lens) = LensOf(other, sizes)
  PROVE  Load(bin, lens) = Load(other, sizes)
<1> DEFINE d == LensOf(bin, lens)
<1>1. d \in Seq(Int) /\ IsTotal(d, Load(bin, lens)) /\ IsTotal(d, Load(other, sizes))
  BY LoadIsTotal
<1> HIDE DEF d
<1> QED BY <1>1, TotalUnique

\* An empty bin has no load.
LEMMA LoadOfNone == ASSUME NEW lens PROVE Load(<<>>, lens) = 0
<1> DEFINE I == {}
           e == <<>>
<1>1. e \in Seq(I) /\ Weighs(lens, I) /\ LensOf(e, lens) = <<>>
  BY DEF Weighs, LensOf
<1>2. IsTotal(LensOf(e, lens), Load(e, lens))
  <2> HIDE DEF e, I
  <2> QED BY <1>1, LoadIsTotal
<1>3. <<>> \in Seq(Int)
  OBVIOUS
<1> QED BY <1>1, <1>2, <1>3, TotalOfNone, TotalUnique

\* A sequence put into a bin adds its length.
LEMMA LoadOfAppend ==
  ASSUME NEW I, NEW bin \in Seq(I), NEW lens, Weighs(lens, I), NEW i \in I
  PROVE  Load(Append(bin, i), lens) = Load(bin, lens) + lens[i]
<1> DEFINE d == LensOf(bin, lens)
           b == Append(bin, i)
<1>1. b \in Seq(I) /\ LensOf(b, lens) = Append(d, lens[i]) /\ lens[i] \in Int
  BY DEF Weighs, LensOf
<1>2. d \in Seq(Int) /\ IsTotal(d, Load(bin, lens))
  BY LoadIsTotal
<1>3. IsTotal(LensOf(b, lens), Load(b, lens)) /\ LensOf(b, lens) \in Seq(Int)
  <2> HIDE DEF b, d
  <2>1. LensOf(b, lens) \in Seq(Nat) /\ IsTotal(LensOf(b, lens), Load(b, lens))
    BY ONLY <1>1, Weighs(lens, I), LoadIsTotal
  <2> QED BY <2>1
<1> HIDE DEF b, d
<1>4. IsTotal(Append(d, lens[i]), Load(bin, lens) + lens[i])
  BY <1>1, <1>2, TotalOfAppend
<1>5. Load(b, lens) = Load(bin, lens) + lens[i]
  BY <1>1, <1>2, <1>3, <1>4, TotalUnique
<1> QED BY <1>5 DEF b

\* A sequence alone in a bin is its load.
LEMMA LoadOfOne ==
  ASSUME NEW lens, NEW i, lens[i] \in Nat
  PROVE  Load(<<i>>, lens) = lens[i]
<1> DEFINE I == {i}
           e == <<>>
<1>1. e \in Seq(I) /\ Weighs(lens, I) /\ i \in I /\ Append(e, i) = <<i>>
  BY DEF Weighs
<1>2. Load(Append(e, i), lens) = Load(e, lens) + lens[i]
  <2> HIDE DEF e, I
  <2> QED BY <1>1, LoadOfAppend
<1> QED BY <1>1, <1>2, LoadOfNone

\* Without its last sequence a bin has no more.
LEMMA LoadOfFront ==
  ASSUME NEW I, NEW bin \in Seq(I), bin # <<>>, NEW lens, Weighs(lens, I)
  PROVE  Load(Front(bin), lens) <= Load(bin, lens)
<1>1. Front(bin) \in Seq(I) /\ Last(bin) \in I /\ bin = Append(Front(bin), Last(bin))
  BY FrontOf
<1>2. Load(bin, lens) = Load(Front(bin), lens) + lens[Last(bin)]
  BY <1>1, LoadOfAppend
<1>3. lens[Last(bin)] \in Nat /\ Load(Front(bin), lens) \in Nat
  BY <1>1, LoadIsTotal DEF Weighs
<1> QED BY <1>2, <1>3

-----------------------------------------------------------------------------
(* Sorting: an element's place is the number of those before it *)

\* R orders S strictly and without ties.
Orders(R, S) ==
  /\ \A i \in S : <<i, i>> \notin R
  /\ \A i, j \in S : i # j => <<i, j>> \in R \/ <<j, i>> \in R
  /\ \A i, j, k \in S : <<i, j>> \in R /\ <<j, k>> \in R => <<i, k>> \in R

\* The element before another is the first of the two.
InOrder(s, R) == \A k, l \in 1..Len(s) : k < l => <<s[k], s[l]>> \in R

\* What comes before has fewer before it.
LEMMA BelowGrows ==
  ASSUME NEW S, IsFiniteSet(S), NEW R, Orders(R, S), NEW i \in S, NEW j \in S, <<i, j>> \in R
  PROVE  /\ Cardinality(SortsBefore(i, S, R)) \in Nat /\ Cardinality(SortsBefore(j, S, R)) \in Nat
         /\ Cardinality(SortsBefore(i, S, R)) < Cardinality(SortsBefore(j, S, R))
<1> DEFINE A == SortsBefore(i, S, R)
           B == SortsBefore(j, S, R)
<1>1. A \subseteq B /\ B \subseteq S /\ i \in B /\ i \notin A
  BY DEF Orders, SortsBefore
<1> HIDE DEF A, B
<1>2. IsFiniteSet(B)
  BY ONLY <1>1, IsFiniteSet(S), FS_Subset
<1>3. IsFiniteSet(A) /\ Cardinality(A) <= Cardinality(B) /\ Cardinality(A) # Cardinality(B)
  BY ONLY <1>1, <1>2, FS_Subset
<1>4. Cardinality(A) \in Nat /\ Cardinality(B) \in Nat
  BY <1>2, <1>3, FS_CardinalityType
<1>5. Cardinality(A) < Cardinality(B)
  BY <1>3, <1>4
<1> QED BY <1>4, <1>5 DEF A, B

\* The sorted sequence lists the set, in the order.
LEMMA SortedLists ==
  ASSUME NEW S, IsFiniteSet(S), NEW R, Orders(R, S)
  PROVE  Lists(Sorted(S, R), S) /\ InOrder(Sorted(S, R), R)
<1> DEFINE n == Cardinality(S)
           r == [i \in S |-> Cardinality(SortsBefore(i, S, R))]
           s == Sorted(S, R)
           J == 0..(n - 1)
<1>1. n \in Nat
  BY FS_CardinalityType
<1>2. \A i, j \in S : <<i, j>> \in R => r[i] < r[j] /\ r[i] \in Nat /\ r[j] \in Nat
  BY BelowGrows
<1>3. r \in [S -> J]
  <2> SUFFICES ASSUME NEW i \in S PROVE Cardinality(SortsBefore(i, S, R)) \in J
    OBVIOUS
  <2> DEFINE A == SortsBefore(i, S, R)
  <2>1. A \subseteq S /\ i \notin A
    BY DEF SortsBefore, Orders
  <2> HIDE DEF A
  <2>2. IsFiniteSet(A) /\ Cardinality(A) <= n /\ n # Cardinality(A)
    BY ONLY <2>1, IsFiniteSet(S), i \in S, FS_Subset
  <2>3. Cardinality(A) \in Nat
    BY <2>2, FS_CardinalityType
  <2>4. Cardinality(A) \in J
    BY <1>1, <2>2, <2>3
  <2> QED BY <2>4 DEF A
<1>4. IsFiniteSet(J) /\ Cardinality(J) = n
  <2>1. 0 \in Int /\ n - 1 \in Int
    BY <1>1
  <2>2. IsFiniteSet(0..(n - 1)) /\ Cardinality(0..(n - 1)) = IF 0 > n - 1 THEN 0 ELSE (n - 1) - 0 + 1
    BY ONLY <2>1, FS_Interval
  <2> HIDE DEF n
  <2>3. n = IF 0 > n - 1 THEN 0 ELSE (n - 1) - 0 + 1
    BY <1>1
  <2> QED BY <2>2, <2>3
<1>5. \A i, j \in S : r[i] = r[j] => i = j
  <2> SUFFICES ASSUME NEW i \in S, NEW j \in S, i # j PROVE r[i] # r[j]
    OBVIOUS
  <2>1. <<i, j>> \in R \/ <<j, i>> \in R
    BY DEF Orders
  <2> HIDE DEF r
  <2> QED BY <1>2, <2>1
<1> HIDE DEF J
<1>6. \A k \in J : \E i \in S : r[i] = k
  <2> HIDE DEF r, n
  <2>1. r \in Injection(S, J)
    <3>1. DOMAIN r = S
      BY <1>3
    <3>2. IsInjective(r)
      BY <1>5, <3>1 DEF IsInjective
    <3> QED BY <1>3, <3>2 DEF Injection
  <2>2. r \in Surjection(S, J)
    BY ONLY <1>4, <2>1, FS_Injection DEF n
  <2> QED BY <2>2 DEF Surjection
<1>7. s \in Seq(S) /\ Len(s) = n /\ \A k \in 1..n : s[k] \in S /\ r[s[k]] = k - 1
  <2>1. ASSUME NEW k \in 1..n PROVE s[k] \in S /\ r[s[k]] = k - 1
    <3>1. k - 1 \in J
      BY <1>1 DEF J
    <3>2. PICK i \in S : r[i] = k - 1
      BY <1>6, <3>1
    <3>3. s[k] = CHOOSE j \in S : Cardinality(SortsBefore(j, S, R)) = k - 1
      BY DEF Sorted
    <3>4. Cardinality(SortsBefore(i, S, R)) = k - 1
      BY <3>2
    <3>5. s[k] \in S /\ Cardinality(SortsBefore(s[k], S, R)) = k - 1
      <4> HIDE DEF s
      <4> QED BY <3>3, <3>4
    <3> QED BY <3>5
  <2>2. s = [k \in 1..n |-> s[k]]
    BY DEF Sorted
  <2> HIDE DEF s, n, r
  <2> QED BY <1>1, <2>1, <2>2
<1> HIDE DEF s, n, r
<1>8. \A k, l \in 1..Len(s) : s[k] = s[l] => k = l
  BY <1>1, <1>7
<1>9. ASSUME NEW x \in S PROVE \E k \in 1..Len(s) : s[k] = x
  <2>1. r[x] \in 0..(n - 1)
    BY <1>3 DEF J
  <2>2. r[x] + 1 \in 1..n /\ (r[x] + 1) - 1 = r[x]
    BY <1>1, <2>1
  <2>3. r[s[r[x] + 1]] = r[x] /\ s[r[x] + 1] \in S
    BY <1>7, <2>2
  <2> QED BY <1>5, <1>7, <2>2, <2>3
<1>10. ASSUME NEW k \in 1..Len(s), NEW l \in 1..Len(s), k < l PROVE <<s[k], s[l]>> \in R
  <2>1. /\ s[k] \in S /\ s[l] \in S /\ r[s[k]] = k - 1 /\ r[s[l]] = l - 1
        /\ k \in Nat /\ l \in Nat
    BY <1>1, <1>7
  <2>2. s[k] # s[l] /\ ~ (r[s[l]] < r[s[k]])
    BY <1>10, <2>1
  <2>3. <<s[l], s[k]>> \notin R
    BY <1>2, <2>1, <2>2
  <2> QED BY <2>1, <2>2, <2>3 DEF Orders
<1> QED BY <1>7, <1>8, <1>9, <1>10 DEF Lists, InOrder, s

\* Orders by length, and of equal lengths by index.
LEMMA LengthsOrder ==
  ASSUME NEW S \in SUBSET Int, NEW lens, Weighs(lens, S)
  PROVE  /\ Orders({p \in S \X S : \/ lens[p[1]] > lens[p[2]]
                                   \/ lens[p[1]] = lens[p[2]] /\ p[1] > p[2]}, S)
         /\ Orders({p \in S \X S : \/ lens[p[1]] > lens[p[2]]
                                   \/ lens[p[1]] = lens[p[2]] /\ p[1] < p[2]}, S)
         /\ Orders({p \in S \X S : \/ lens[p[1]] < lens[p[2]]
                                   \/ lens[p[1]] = lens[p[2]] /\ p[1] < p[2]}, S)
<1>1. \A i \in S : lens[i] \in Int /\ i \in Int
  BY DEF Weighs
<1>2. Orders({p \in S \X S : \/ lens[p[1]] > lens[p[2]]
                             \/ lens[p[1]] = lens[p[2]] /\ p[1] > p[2]}, S)
  BY <1>1 DEF Orders
<1>3. Orders({p \in S \X S : \/ lens[p[1]] > lens[p[2]]
                             \/ lens[p[1]] = lens[p[2]] /\ p[1] < p[2]}, S)
  BY <1>1 DEF Orders
<1>4. Orders({p \in S \X S : \/ lens[p[1]] < lens[p[2]]
                             \/ lens[p[1]] = lens[p[2]] /\ p[1] < p[2]}, S)
  BY <1>1 DEF Orders
<1> QED BY <1>2, <1>3, <1>4

\* The longest first: a listing.
LEMMA LongestFirstLists ==
  ASSUME NEW S \in SUBSET Int, IsFiniteSet(S), NEW lens, Weighs(lens, S)
  PROVE  Lists(LongestFirst(S, lens), S)
<1> DEFINE R == {p \in S \X S : \/ lens[p[1]] > lens[p[2]]
                                \/ lens[p[1]] = lens[p[2]] /\ p[1] < p[2]}
<1>1. Orders(R, S) /\ LongestFirst(S, lens) = Sorted(S, R)
  BY LengthsOrder DEF LongestFirst
<1> HIDE DEF R
<1> QED BY <1>1, SortedLists

\* The shortest first: a listing, in the order of the lengths.
LEMMA ShortestFirstLists ==
  ASSUME NEW S \in SUBSET Int, IsFiniteSet(S), NEW lens, Weighs(lens, S)
  PROVE  /\ Lists(ShortestFirst(S, lens), S)
         /\ \A k, l \in 1..Len(ShortestFirst(S, lens)) :
              k < l => lens[ShortestFirst(S, lens)[k]] <= lens[ShortestFirst(S, lens)[l]]
<1> DEFINE R == {p \in S \X S : \/ lens[p[1]] < lens[p[2]]
                                \/ lens[p[1]] = lens[p[2]] /\ p[1] < p[2]}
           s == ShortestFirst(S, lens)
<1>1. Orders(R, S) /\ s = Sorted(S, R)
  BY LengthsOrder DEF ShortestFirst
<1>2. Lists(s, S) /\ InOrder(s, R)
  <2> HIDE DEF R, s
  <2> QED BY <1>1, SortedLists
<1> HIDE DEF s
<1>3. ASSUME NEW k \in 1..Len(s), NEW l \in 1..Len(s), k < l PROVE lens[s[k]] <= lens[s[l]]
  <2>1. <<s[k], s[l]>> \in R
    <3> HIDE DEF R
    <3> QED BY <1>2, <1>3 DEF InOrder
  <2>2. lens[s[k]] \in Int /\ lens[s[l]] \in Int
    <3>1. <<s[k], s[l]>> \in S \X S
      BY <2>1
    <3>2. s[k] \in S /\ s[l] \in S
      BY <3>1
    <3>3. \A i \in S : lens[i] \in Int
      BY DEF Weighs
    <3> QED BY ONLY <3>2, <3>3
  <2> QED BY <2>1, <2>2
<1> QED BY <1>2, <1>3 DEF s

\* The order of FirstFitDecreasingPacker: a listing of the indices.
LEMMA DecreasingLists ==
  ASSUME NEW lens \in Seq(Nat)
  PROVE  Lists(Decreasing(lens), 1..Len(lens))
<1> DEFINE S == 1..Len(lens)
           R == {p \in S \X S : \/ lens[p[1]] > lens[p[2]]
                                \/ lens[p[1]] = lens[p[2]] /\ p[1] > p[2]}
<1>1. S \in SUBSET Int /\ Weighs(lens, S)
  BY DEF Weighs
<1>2. IsFiniteSet(S)
  <2>1. 1 \in Int /\ Len(lens) \in Int
    OBVIOUS
  <2> QED BY ONLY <2>1, FS_Interval
<1>3. Orders(R, S) /\ Decreasing(lens) = Sorted(S, R)
  <2>1. Decreasing(lens) = Sorted(S, R)
    BY DEF Decreasing
  <2> HIDE DEF S
  <2> QED BY <1>1, <2>1, LengthsOrder
<1> HIDE DEF R, S
<1>4. Lists(Decreasing(lens), S)
  BY ONLY <1>2, <1>3, SortedLists
<1> QED BY <1>4 DEF S

-----------------------------------------------------------------------------
(* Searches *)

\* What SelectInSeq and SelectLastInSeq find.
Finds(k, n, I) == IF I = {} THEN k = 0 ELSE k \in I /\ k \in 1..n

\* The least and the largest of some positions are among them.
LEMMA MinAndMaxIn ==
  ASSUME NEW n \in Nat, NEW I \in SUBSET (1..n)
  PROVE  Finds(IF I # {} THEN Min(I) ELSE 0, n, I) /\ Finds(IF I # {} THEN Max(I) ELSE 0, n, I)
<1>1. CASE I = {}
  BY <1>1 DEF Finds
<1>2. CASE I # {}
  <2>1. Max(I) \in I
    BY <1>2, MaxOfSet
  <2>2. Min(I) \in I
    <3>1. PICK m \in I : \A x \in I : m <= x
      BY <1>2, LeastNumber
    <3> QED BY <3>1 DEF Min
  <2> QED BY <1>2, <2>1, <2>2 DEF Finds
<1> QED BY <1>1, <1>2

-----------------------------------------------------------------------------
(* Bins that pack a set *)

\* Every index of S is once in one of the bins, no bin is empty, and none
\* exceeds the capacity.
Packs(bins, S, lens, cap) ==
  /\ Deals(bins, S)
  /\ \A b \in 1..Len(bins) : bins[b] # <<>> /\ Load(bins[b], lens) <= cap

\* A sequence something was appended to is not empty.
LEMMA AppendNotEmpty ==
  ASSUME NEW V, NEW s \in Seq(V), NEW x \in V
  PROVE  Append(s, x) # <<>>
<1>1. Append(s, x) \in Seq(V) /\ Len(Append(s, x)) = Len(s) + 1 /\ Len(s) \in Nat
  OBVIOUS
<1>2. Len(Append(s, x)) # 0
  BY <1>1
<1> QED BY <1>1, <1>2, EmptySeq

\* Bins are sequences of sequences.
LEMMA PacksSeq ==
  ASSUME NEW bins, NEW S, NEW lens, NEW cap, Packs(bins, S, lens, cap)
  PROVE  bins \in Seq(Seq(S)) /\ Len(bins) \in Nat
BY DEF Packs, Deals, DealsAs

\* Nothing is packed in no bins.
LEMMA PacksNone == ASSUME NEW lens, NEW cap PROVE Packs(<<>>, {}, lens, cap)
BY DealsNone DEF Packs

\* A bin more.
LEMMA PacksAppend ==
  ASSUME NEW bins, NEW S, NEW lens, NEW cap, Packs(bins, S, lens, cap),
         NEW s, NEW T, Lists(s, T), S \cap T = {}, s # <<>>, Load(s, lens) <= cap
  PROVE  Packs(Append(bins, s), S \cup T, lens, cap)
<1> DEFINE V == Seq(S \cup T)
<1>1. bins \in Seq(V) /\ s \in V
  <2>1. bins \in Seq(Seq(S)) /\ s \in Seq(T)
    BY PacksSeq DEF Lists
  <2> QED BY <2>1
<1>2. Deals(Append(bins, s), S \cup T)
  <2> HIDE DEF V
  <2> QED BY <1>1, DealsAppend DEF Packs
<1>3. \A b \in 1..Len(Append(bins, s)) :
        Append(bins, s)[b] # <<>> /\ Load(Append(bins, s)[b], lens) <= cap
  <2> TAKE b \in 1..Len(Append(bins, s))
  <2>1. Append(bins, s)[b] = IF b <= Len(bins) THEN bins[b] ELSE s
    <3> HIDE DEF V
    <3> QED BY <1>1
  <2>2. b <= Len(bins) => b \in 1..Len(bins)
    <3> HIDE DEF V
    <3> QED BY <1>1
  <2> QED BY <2>1, <2>2 DEF Packs
<1> QED BY <1>2, <1>3 DEF Packs

\* A bin more, at some place.
LEMMA PacksWithOne ==
  ASSUME NEW bins, NEW S, NEW lens, NEW cap, Packs(bins, S, lens, cap),
         NEW s, NEW T, s # <<>>, Load(s, lens) <= cap,
         NEW r, NEW k, WithOne(r, bins, k, s), Deals(r, S \cup T)
  PROVE  Packs(r, S \cup T, lens, cap)
<1>1. Len(bins) \in Nat
  BY PacksSeq
<1>2. /\ Len(r) = Len(bins) + 1 /\ k \in 1..(Len(bins) + 1)
      /\ \A j \in 1..(Len(bins) + 1) : r[j] = IF j < k THEN bins[j] ELSE IF j = k THEN s ELSE bins[j - 1]
  BY DEF WithOne
<1>3. \A b \in 1..Len(r) : r[b] # <<>> /\ Load(r[b], lens) <= cap
  <2> TAKE b \in 1..Len(r)
  <2>1. b \in 1..(Len(bins) + 1)
    BY <1>2
  <2>2. (b < k => b \in 1..Len(bins)) /\ (b > k => b - 1 \in 1..Len(bins)) /\ (b < k \/ b = k \/ b > k)
    BY <1>1, <1>2, <2>1
  <2>3. \A c \in 1..Len(bins) : bins[c] # <<>> /\ Load(bins[c], lens) <= cap
    BY DEF Packs
  <2>4. CASE b < k
    BY <1>2, <2>1, <2>2, <2>3, <2>4
  <2>5. CASE b = k
    BY <1>2, <2>1, <2>5
  <2>6. CASE b > k
    <3>1. r[b] = bins[b - 1]
      BY <1>2, <2>1, <2>6
    <3> QED BY <2>2, <2>3, <2>6, <3>1
  <2> QED BY <2>2, <2>4, <2>5, <2>6
<1> QED BY <1>3 DEF Packs

\* A bin more, in front.
LEMMA PacksFirst ==
  ASSUME NEW bins, NEW S, NEW lens, NEW cap, Packs(bins, S, lens, cap),
         NEW s, NEW T, Lists(s, T), S \cap T = {}, s # <<>>, Load(s, lens) <= cap
  PROVE  Packs(<<s>> \o bins, S \cup T, lens, cap)
<1> DEFINE V == Seq(S \cup T)
           r == <<s>> \o bins
<1>1. bins \in Seq(V) /\ s \in V
  <2>1. bins \in Seq(Seq(S)) /\ s \in Seq(T)
    BY PacksSeq DEF Lists
  <2> QED BY <2>1
<1>2. Deals(r, S \cup T) /\ WithOne(r, bins, 1, s)
  <2> HIDE DEF V
  <2> QED BY <1>1, DealsFirst DEF Packs
<1> HIDE DEF r
<1>3. Packs(r, S \cup T, lens, cap)
  BY <1>2, PacksWithOne
<1> QED BY <1>3 DEF r

\* A bin more, inserted.
LEMMA PacksInserted ==
  ASSUME NEW bins, NEW S, NEW lens, NEW cap, Packs(bins, S, lens, cap),
         NEW s, NEW T, Lists(s, T), S \cap T = {}, s # <<>>, Load(s, lens) <= cap,
         NEW k \in 1..(Len(bins) + 1)
  PROVE  Packs(InsertAt(bins, k, s), S \cup T, lens, cap)
<1> DEFINE V == Seq(S \cup T)
           r == InsertAt(bins, k, s)
<1>1. bins \in Seq(V) /\ s \in V
  <2>1. bins \in Seq(Seq(S)) /\ s \in Seq(T)
    BY PacksSeq DEF Lists
  <2> QED BY <2>1
<1>2. Deals(r, S \cup T)
  <2> HIDE DEF V
  <2> QED BY <1>1, DealsInserted DEF Packs
<1>3. WithOne(r, bins, k, s)
  <2> HIDE DEF V
  <2>1. /\ Len(r) = Len(bins) + 1
        /\ \A j \in 1..(Len(bins) + 1) : r[j] = IF j < k THEN bins[j] ELSE IF j = k THEN s ELSE bins[j - 1]
    BY ONLY <1>1, k \in 1..(Len(bins) + 1), Inserted
  <2> HIDE DEF r
  <2> QED BY <2>1 DEF WithOne
<1> HIDE DEF r
<1>4. Packs(r, S \cup T, lens, cap)
  BY <1>2, <1>3, PacksWithOne
<1> QED BY <1>4 DEF r

\* An index more in a bin that has room for it.
LEMMA PacksOneMore ==
  ASSUME NEW bins, NEW S, NEW lens, NEW cap, Packs(bins, S, lens, cap), Weighs(lens, S),
         NEW b \in 1..Len(bins), NEW i, i \notin S, lens[i] \in Nat,
         Load(bins[b], lens) + lens[i] <= cap
  PROVE  Packs([bins EXCEPT ![b] = Append(bins[b], i)], S \cup {i}, lens, cap)
<1> DEFINE r == [bins EXCEPT ![b] = Append(bins[b], i)]
           I == S \cup {i}
<1>1. bins \in Seq(Seq(S)) /\ bins[b] \in Seq(S) /\ Len(r) = Len(bins)
  BY PacksSeq
<1>2. \A c \in 1..Len(bins) : r[c] = IF c = b THEN Append(bins[b], i) ELSE bins[c]
  BY <1>1
<1>3. Load(Append(bins[b], i), lens) = Load(bins[b], lens) + lens[i]
  <2>1. bins[b] \in Seq(I) /\ Weighs(lens, I) /\ i \in I
    BY <1>1 DEF Weighs
  <2> HIDE DEF I
  <2> QED BY <2>1, LoadOfAppend
<1>4. Append(bins[b], i) # <<>>
  <2>1. bins[b] \in Seq(I) /\ i \in I
    BY <1>1
  <2> QED BY ONLY <2>1, AppendNotEmpty
<1>5. Deals(r, S \cup {i})
  BY DealsOneMore DEF Packs
<1> HIDE DEF r
<1>6. \A c \in 1..Len(r) : r[c] # <<>> /\ Load(r[c], lens) <= cap
  BY <1>1, <1>2, <1>3, <1>4 DEF Packs
<1>7. Packs(r, S \cup {i}, lens, cap)
  BY <1>5, <1>6 DEF Packs
<1> QED BY <1>7 DEF r

\* The first bin, and the others.
LEMMA PacksTail ==
  ASSUME NEW bins, NEW S, NEW lens, NEW cap, Packs(bins, S, lens, cap), bins # <<>>
  PROVE  \E T \in SUBSET S : /\ Lists(Head(bins), T) /\ Packs(Tail(bins), S \ T, lens, cap)
                             /\ Head(bins) # <<>> /\ Load(Head(bins), lens) <= cap
<1>1. bins \in Seq(Seq(S)) /\ Len(bins) \in Nat
  BY PacksSeq
<1>2. PICK T \in SUBSET S : Lists(Head(bins), T) /\ Deals(Tail(bins), S \ T)
  BY DealsTail DEF Packs
<1>3. 1 \in 1..Len(bins) /\ Head(bins) = bins[1]
  BY <1>1, EmptySeq
<1>4. Len(Tail(bins)) = Len(bins) - 1 /\ \A b \in 1..(Len(bins) - 1) : Tail(bins)[b] = bins[b + 1]
  BY <1>1, <1>3
<1>5. \A b \in 1..(Len(bins) - 1) : b + 1 \in 1..Len(bins)
  BY <1>1
<1>6. \A b \in 1..Len(Tail(bins)) : Tail(bins)[b] # <<>> /\ Load(Tail(bins)[b], lens) <= cap
  BY <1>4, <1>5 DEF Packs
<1> QED BY <1>2, <1>3, <1>6 DEF Packs

\* Bins after bins.
LEMMA PacksConcat ==
  ASSUME NEW bins, NEW S, NEW lens, NEW cap, Packs(bins, S, lens, cap),
         NEW more, NEW T, Packs(more, T, lens, cap), S \cap T = {}
  PROVE  Packs(bins \o more, S \cup T, lens, cap)
<1> DEFINE V == Seq(S \cup T)
           n == Len(bins)
           m == Len(more)
           r == bins \o more
<1>1. bins \in Seq(V) /\ more \in Seq(V) /\ n \in Nat /\ m \in Nat
  <2>1. bins \in Seq(Seq(S)) /\ more \in Seq(Seq(T))
    BY PacksSeq
  <2> QED BY <2>1
<1>2. Deals(r, S \cup T)
  BY DealsConcat DEF Packs
<1>3. IsConcat(r, V, bins, more, n, m)
  <2> HIDE DEF V
  <2> QED BY <1>1, ConcatAt
<1> HIDE DEF V, r
<1>4. /\ Len(r) = n + m /\ \A j \in 1..n : r[j] = bins[j]
      /\ \A j \in 1..m : r[n + j] = more[j]
  BY <1>3, Zenon DEF IsConcat
<1>5. \A b \in 1..n : bins[b] # <<>> /\ Load(bins[b], lens) <= cap
  BY DEF Packs
<1>6. \A b \in 1..m : more[b] # <<>> /\ Load(more[b], lens) <= cap
  BY DEF Packs
<1> HIDE DEF n, m
<1>7. \A b \in 1..Len(r) : r[b] # <<>> /\ Load(r[b], lens) <= cap
  <2> TAKE b \in 1..Len(r)
  <2>1. b \in 1..n \/ (b - n \in 1..m /\ b = n + (b - n))
    BY <1>1, <1>4
  <2>2. CASE b \in 1..n
    BY <1>4, <1>5, <2>2
  <2>3. CASE b - n \in 1..m /\ b = n + (b - n)
    <3>1. r[b] = more[b - n]
      BY <1>4, <2>3
    <3> QED BY <1>6, <2>3, <3>1
  <2> QED BY <2>1, <2>2, <2>3
<1> QED BY <1>2, <1>7 DEF Packs, r

-----------------------------------------------------------------------------
(* The elements of a listing, one after the other *)

Taken(s, k) == {s[j] : j \in 1..k}

Takes(s, S, n) ==
  /\ n \in Nat /\ Taken(s, 0) = {} /\ Taken(s, n) = S
  /\ \A k \in 1..n : /\ Taken(s, k) = Taken(s, k - 1) \cup {s[k]}
                     /\ s[k] \in S /\ s[k] \notin Taken(s, k - 1)
  /\ \A k \in 0..n : Taken(s, k) \subseteq S

\* Each element comes once, and all of them come.
LEMMA TakenOneByOne ==
  ASSUME NEW s, NEW S, Lists(s, S), NEW n, n = Len(s)
  PROVE  Takes(s, S, n)
<1>1. Listed(s, S, n)
  BY ListsOpen
<1>2. /\ n \in Nat /\ \A k, l \in 1..n : s[k] = s[l] => k = l
      /\ \A x \in S : \E k \in 1..n : s[k] = x
      /\ \A k \in 1..n : s[k] \in S
  BY <1>1, Zenon DEF Listed
<1>3. Taken(s, 0) = {}
  BY DEF Taken
<1>4. Taken(s, n) = S
  BY <1>2 DEF Taken
<1>5. ASSUME NEW k \in 1..n
      PROVE  Taken(s, k) = Taken(s, k - 1) \cup {s[k]} /\ s[k] \notin Taken(s, k - 1)
  <2>1. 1..k = 1..(k - 1) \cup {k} /\ 1..(k - 1) \subseteq 1..n /\ k \notin 1..(k - 1)
    BY <1>2
  <2>2. Taken(s, k) = Taken(s, k - 1) \cup {s[k]}
    BY <2>1 DEF Taken
  <2>3. s[k] \notin Taken(s, k - 1)
    BY <1>2, <2>1 DEF Taken
  <2> QED BY <2>2, <2>3
<1>6. ASSUME NEW k \in 0..n PROVE Taken(s, k) \subseteq S
  <2>1. 1..k \subseteq 1..n
    BY <1>2
  <2> QED BY <1>2, <2>1 DEF Taken
<1> QED BY <1>2, <1>3, <1>4, <1>5, <1>6 DEF Takes

-----------------------------------------------------------------------------
(* ConcatenativePacker and FirstFitPacker *)

\* The lengths of sequences that fit into a bin.
Packable(lens, cap) ==
  lens \in Seq(Nat) /\ cap \in Int /\ \A i \in 1..Len(lens) : lens[i] <= cap

\* Each of them weighs something.
LEMMA PackableWeighs ==
  ASSUME NEW lens, NEW cap, Packable(lens, cap)
  PROVE  \A S \in SUBSET (1..Len(lens)) : Weighs(lens, S) /\ \A i \in S : lens[i] \in Nat
BY DEF Packable, Weighs

\* A bin for a sequence of its own.
LEMMA PacksAlone ==
  ASSUME NEW lens, NEW cap, Packable(lens, cap), NEW bins, NEW S, Packs(bins, S, lens, cap),
         NEW i \in 1..Len(lens), i \notin S
  PROVE  Packs(Append(bins, <<i>>), S \cup {i}, lens, cap)
<1>1. lens[i] \in Nat /\ lens[i] <= cap
  BY DEF Packable
<1>2. Lists(<<i>>, {i}) /\ Load(<<i>>, lens) <= cap /\ S \cap {i} = {} /\ <<i>> # <<>>
  BY <1>1, ListsOne, LoadOfOne
<1> QED BY <1>2, PacksAppend

\* The last bin takes the sequence, or a new one does.
LEMMA PlaceNextPacks ==
  ASSUME NEW lens, NEW cap, Packable(lens, cap), NEW bins, NEW S \in SUBSET (1..Len(lens)),
         Packs(bins, S, lens, cap), NEW i \in 1..Len(lens), i \notin S
  PROVE  Packs(PlaceNext(bins, i, lens, cap), S \cup {i}, lens, cap)
<1>1. CASE bins # <<>> /\ Fits(i, Last(bins), lens, cap)
  <2> DEFINE b == Len(bins)
             r == Append(Front(bins), Append(Last(bins), i))
  <2>1. bins \in Seq(Seq(S)) /\ b \in Nat
    BY PacksSeq
  <2>2. b >= 1 /\ Last(bins) = bins[b] /\ Front(bins) \in Seq(Seq(S)) /\ Len(Front(bins)) = b - 1
        /\ \A j \in 1..(b - 1) : Front(bins)[j] = bins[j]
    BY <1>1, <2>1, FrontOf
  <2>3. r = [bins EXCEPT ![b] = Append(bins[b], i)]
    <3> DEFINE U == S \cup {i}
               x == Append(bins[b], i)
    <3>1. Front(bins) \in Seq(Seq(U)) /\ x \in Seq(U) /\ bins \in Seq(Seq(U))
      <4>1. bins[b] \in Seq(S)
        BY <2>1, <2>2
      <4> QED BY <2>1, <2>2, <4>1
    <3> HIDE DEF x, b
    <3>2. Append(Front(bins), x) = [j \in 1..b |-> IF j = b THEN x ELSE bins[j]]
      <4>1. /\ Append(Front(bins), x) \in Seq(Seq(U)) /\ Len(Append(Front(bins), x)) = (b - 1) + 1
            /\ \A j \in 1..(b - 1) : Append(Front(bins), x)[j] = Front(bins)[j]
            /\ Append(Front(bins), x)[(b - 1) + 1] = x
        BY ONLY <2>2, <3>1, AppendProperties
      <4>2. (b - 1) + 1 = b
        BY <2>1
      <4>3. \A j \in 1..b : j = b \/ j \in 1..(b - 1)
        BY <2>1
      <4> DEFINE f == Append(Front(bins), x)
      <4>4. Len(f) = b /\ f[b] = x /\ \A j \in 1..(b - 1) : f[j] = bins[j]
        BY <2>2, <4>1, <4>2
      <4>5. f = [j \in 1..b |-> f[j]]
        <5>1. f \in Seq(Seq(U))
          BY <4>1
        <5> HIDE DEF f, U
        <5>2. DOMAIN f = 1..b /\ f = [j \in DOMAIN f |-> f[j]]
          BY <4>4, <5>1
        <5> QED BY <5>2
      <4>6. \A j \in 1..b : f[j] = IF j = b THEN x ELSE bins[j]
        <5> HIDE DEF f
        <5> QED BY <4>3, <4>4
      <4> HIDE DEF f
      <4>7. f = [j \in 1..b |-> IF j = b THEN x ELSE bins[j]]
        BY ONLY <4>5, <4>6
      <4> QED BY <4>7 DEF f
    <3>3. [bins EXCEPT ![b] = x] = [j \in 1..b |-> IF j = b THEN x ELSE bins[j]]
      <4>1. DOMAIN bins = 1..b
        BY <2>1 DEF b
      <4> QED BY <4>1
    <3> QED BY <2>2, <3>2, <3>3 DEF x
  <2>4. b \in 1..Len(bins) /\ lens[i] \in Nat /\ Weighs(lens, S) /\ Load(bins[b], lens) + lens[i] <= cap
    <3>1. b \in 1..Len(bins)
      BY <2>1, <2>2
    <3>2. lens[i] \in Nat /\ Weighs(lens, S)
      BY PackableWeighs
    <3>3. Load(Last(bins), lens) + lens[i] <= cap
      BY <1>1 DEF Fits
    <3> QED BY <2>2, <3>1, <3>2, <3>3
  <2>5. Packs([bins EXCEPT ![b] = Append(bins[b], i)], S \cup {i}, lens, cap)
    <3> HIDE DEF b, r
    <3> QED BY ONLY <2>4, Packs(bins, S, lens, cap), i \notin S, PacksOneMore
  <2> QED BY <1>1, <2>3, <2>5 DEF PlaceNext
<1>2. CASE ~ (bins # <<>> /\ Fits(i, Last(bins), lens, cap))
  BY <1>2, PacksAlone DEF PlaceNext
<1> QED BY <1>1, <1>2

\* The first bin with room takes the sequence, or a new one does.
LEMMA PlaceFirstPacks ==
  ASSUME NEW lens, NEW cap, Packable(lens, cap), NEW bins, NEW S \in SUBSET (1..Len(lens)),
         Packs(bins, S, lens, cap), NEW i \in 1..Len(lens), i \notin S
  PROVE  Packs(PlaceFirst(bins, i, lens, cap), S \cup {i}, lens, cap)
<1> DEFINE P == {b \in 1..Len(bins) : Fits(i, bins[b], lens, cap)}
           b == SelectInSeq(bins, LAMBDA bin : Fits(i, bin, lens, cap))
<1>1. Finds(b, Len(bins), P)
  <2>1. b = IF P # {} THEN Min(P) ELSE 0
    BY DEF SelectInSeq
  <2>2. Len(bins) \in Nat /\ P \in SUBSET (1..Len(bins))
    BY PacksSeq
  <2> HIDE DEF b, P
  <2> QED BY <2>1, <2>2, MinAndMaxIn
<1>2. PlaceFirst(bins, i, lens, cap) =
        IF b = 0 THEN Append(bins, <<i>>) ELSE [bins EXCEPT ![b] = Append(bins[b], i)]
  BY DEF PlaceFirst
<1>3. P = {} \/ b \in P
  BY <1>1 DEF Finds
<1>4. P = {} => b = 0
  BY <1>1 DEF Finds
<1> HIDE DEF b
<1>5. CASE b = 0
  BY <1>2, <1>5, PacksAlone
<1>6. CASE b # 0
  <2>1. b \in 1..Len(bins) /\ Load(bins[b], lens) + lens[i] <= cap
    BY <1>3, <1>4, <1>6 DEF Fits
  <2>2. lens[i] \in Nat /\ Weighs(lens, S)
    BY PackableWeighs
  <2>3. Packs([bins EXCEPT ![b] = Append(bins[b], i)], S \cup {i}, lens, cap)
    BY <2>1, <2>2, PacksOneMore
  <2> QED BY <1>2, <1>6, <2>3
<1> QED BY <1>5, <1>6

\* The steps stay among the sequences of bins.
LEMMA PlacesAreBins ==
  ASSUME NEW I, NEW bins \in Seq(Seq(I)), NEW i \in I, NEW lens, NEW cap
  PROVE  PlaceNext(bins, i, lens, cap) \in Seq(Seq(I)) /\ PlaceFirst(bins, i, lens, cap) \in Seq(Seq(I))
<1>1. Append(bins, <<i>>) \in Seq(Seq(I))
  OBVIOUS
<1>2. bins # <<>> => Append(Front(bins), Append(Last(bins), i)) \in Seq(Seq(I))
  <2> SUFFICES ASSUME bins # <<>> PROVE Append(Front(bins), Append(Last(bins), i)) \in Seq(Seq(I))
    OBVIOUS
  <2>1. Front(bins) \in Seq(Seq(I)) /\ Last(bins) \in Seq(I)
    BY FrontOf
  <2> QED BY <2>1
<1>3. \A b : [bins EXCEPT ![b] = Append(bins[b], i)] \in Seq(Seq(I))
  <2> TAKE b
  <2>1. CASE b \in 1..Len(bins)
    <3>1. Append(bins[b], i) \in Seq(I)
      BY <2>1
    <3> QED BY <2>1, <3>1
  <2>2. CASE b \notin 1..Len(bins)
    <3>1. [bins EXCEPT ![b] = Append(bins[b], i)] = bins
      BY <2>2
    <3> QED BY <3>1
  <2> QED BY <2>1, <2>2
<1>4. PlaceNext(bins, i, lens, cap) \in Seq(Seq(I))
  BY <1>1, <1>2 DEF PlaceNext
<1>5. PlaceFirst(bins, i, lens, cap) \in Seq(Seq(I))
  <2> DEFINE b == SelectInSeq(bins, LAMBDA bin : Fits(i, bin, lens, cap))
  <2>1. PlaceFirst(bins, i, lens, cap) =
          IF b = 0 THEN Append(bins, <<i>>) ELSE [bins EXCEPT ![b] = Append(bins[b], i)]
    BY DEF PlaceFirst
  <2> HIDE DEF b
  <2> QED BY <1>1, <1>3, <2>1
<1> QED BY <1>4, <1>5

\* The indices in order are a listing.
LEMMA IndicesList ==
  ASSUME NEW lens, Len(lens) \in Nat
  PROVE  Lists(Indices(lens), 1..Len(lens)) /\ Len(Indices(lens)) = Len(lens)
BY DEF Indices, Lists

\* The packer that takes the sequences in order packs them all.
LEMMA ConcatenativePacks ==
  ASSUME NEW lens, NEW cap, Packable(lens, cap)
  PROVE  Packs(Concatenative(lens, cap), 1..Len(lens), lens, cap)
<1> DEFINE n == Len(lens)
           I == 1..n
           s == Indices(lens)
           V == Seq(Seq(I))
           e == <<>>
<1>1. n \in Nat /\ Lists(s, I) /\ Len(s) = n
  BY IndicesList DEF Packable
<1>2. Takes(s, I, n) /\ DOMAIN s = 1..n /\ \A k \in 1..n : s[k] \in I
  <2> HIDE DEF I, n, s
  <2>1. Takes(s, I, n)
    BY <1>1, TakenOneByOne
  <2> QED BY <1>1, <2>1 DEF Takes, Lists
<1>3. e \in V /\ \A a \in V : \A k \in 1..n : PlaceNext(a, s[k], lens, cap) \in V
  <2>1. ASSUME NEW a \in V, NEW k \in 1..n PROVE PlaceNext(a, s[k], lens, cap) \in V
    <3>1. s[k] \in I /\ a \in Seq(Seq(I))
      BY <1>2
    <3> HIDE DEF I, s, n
    <3> QED BY <3>1, PlacesAreBins
  <2>2. e \in V
    <3> HIDE DEF I
    <3> QED OBVIOUS
  <2> QED BY <2>1, <2>2
<1> HIDE DEF I, s, V, n, e
<1>4. ConcatenativeStepsIn(V, n, e, s, lens, cap)
  <2>1. e = <<>> /\ s = Indices(lens)
    BY DEF e, s
  <2> QED BY ONLY <1>1, <1>2, <1>3, <2>1, ConcatenativeSteps
<1>5. PICK st \in [0..n -> V] :
        /\ st[0] = e /\ Concatenative(lens, cap) = st[n]
        /\ \A k \in 1..n : st[k] = PlaceNext(st[k - 1], s[k], lens, cap)
  BY <1>4, Zenon DEF ConcatenativeStepsIn
<1> DEFINE T == {k \in 0..n : Packs(st[k], Taken(s, k), lens, cap)}
<1>6. 0 \in T
  <2>1. Taken(s, 0) = {} /\ st[0] = <<>>
    BY <1>2, <1>5 DEF Takes, e
  <2>2. Packs(st[0], Taken(s, 0), lens, cap)
    BY <2>1, PacksNone
  <2> QED BY <1>1, <2>2
<1>7. ASSUME NEW k \in 0..(n - 1), k \in T PROVE k + 1 \in T
  <2>1. k + 1 \in 1..n /\ k + 1 \in 0..n /\ (k + 1) - 1 = k /\ k \in 0..n
    BY <1>1
  <2>2. /\ Taken(s, k + 1) = Taken(s, k) \cup {s[k + 1]} /\ s[k + 1] \in I
        /\ s[k + 1] \notin Taken(s, k) /\ Taken(s, k) \subseteq I
    BY <1>2, <2>1 DEF Takes
  <2>3. st[k + 1] = PlaceNext(st[k], s[k + 1], lens, cap)
    BY <1>5, <2>1
  <2>4. Packs(st[k], Taken(s, k), lens, cap)
    BY <1>7
  <2>5. Packs(st[k + 1], Taken(s, k + 1), lens, cap)
    BY <2>2, <2>3, <2>4, PlaceNextPacks DEF I, n
  <2> QED BY <2>1, <2>5
<1>8. n \in T
  <2>1. \A k \in 0..n : k \in T
    <3> HIDE DEF T
    <3> QED BY <1>1, <1>6, <1>7, InductionTo
  <2> QED BY <1>1, <2>1
<1> QED BY <1>2, <1>5, <1>8 DEF Takes, I, n

\* The first-fit packer packs them all, in whichever order it takes them.
LEMMA FirstFitPacks ==
  ASSUME NEW lens, NEW cap, Packable(lens, cap), NEW s, Lists(s, 1..Len(lens))
  PROVE  Packs(FirstFit(s, lens, cap), 1..Len(lens), lens, cap)
<1> DEFINE n == Len(s)
           I == 1..Len(lens)
           V == Seq(Seq(I))
           e == <<>>
<1>1. n \in Nat
  BY DEF Lists
<1>2. Takes(s, I, n) /\ DOMAIN s = 1..n /\ \A k \in 1..n : s[k] \in I
  <2> HIDE DEF I
  <2>1. Takes(s, I, n)
    BY TakenOneByOne DEF I
  <2> QED BY <2>1 DEF Takes, Lists, I
<1>3. e \in V /\ \A a \in V : \A k \in 1..n : PlaceFirst(a, s[k], lens, cap) \in V
  <2>1. ASSUME NEW a \in V, NEW k \in 1..n PROVE PlaceFirst(a, s[k], lens, cap) \in V
    <3>1. s[k] \in I /\ a \in Seq(Seq(I))
      BY <1>2
    <3> HIDE DEF I, n
    <3> QED BY <3>1, PlacesAreBins
  <2>2. e \in V
    <3> HIDE DEF I
    <3> QED OBVIOUS
  <2> QED BY <2>1, <2>2
<1> HIDE DEF I, V, n, e
<1>4. FirstFitStepsIn(V, n, e, s, s, lens, cap)
  <2>1. e = <<>>
    BY DEF e
  <2> QED BY ONLY <1>1, <1>2, <1>3, <2>1, FirstFitSteps
<1>5. PICK st \in [0..n -> V] :
        /\ st[0] = e /\ FirstFit(s, lens, cap) = st[n]
        /\ \A k \in 1..n : st[k] = PlaceFirst(st[k - 1], s[k], lens, cap)
  BY <1>4, Zenon DEF FirstFitStepsIn
<1> DEFINE T == {k \in 0..n : Packs(st[k], Taken(s, k), lens, cap)}
<1>6. 0 \in T
  <2>1. Taken(s, 0) = {} /\ st[0] = <<>>
    BY <1>2, <1>5 DEF Takes, e
  <2>2. Packs(st[0], Taken(s, 0), lens, cap)
    BY <2>1, PacksNone
  <2> QED BY <1>1, <2>2
<1>7. ASSUME NEW k \in 0..(n - 1), k \in T PROVE k + 1 \in T
  <2>1. k + 1 \in 1..n /\ k + 1 \in 0..n /\ (k + 1) - 1 = k /\ k \in 0..n
    BY <1>1
  <2>2. /\ Taken(s, k + 1) = Taken(s, k) \cup {s[k + 1]} /\ s[k + 1] \in I
        /\ s[k + 1] \notin Taken(s, k) /\ Taken(s, k) \subseteq I
    BY <1>2, <2>1 DEF Takes
  <2>3. st[k + 1] = PlaceFirst(st[k], s[k + 1], lens, cap)
    BY <1>5, <2>1
  <2>4. Packs(st[k], Taken(s, k), lens, cap)
    BY <1>7
  <2>5. Packs(st[k + 1], Taken(s, k + 1), lens, cap)
    BY <2>2, <2>3, <2>4, PlaceFirstPacks DEF I
  <2> QED BY <2>1, <2>5
<1>8. n \in T
  <2>1. \A k \in 0..n : k \in T
    <3> HIDE DEF T
    <3> QED BY <1>1, <1>6, <1>7, InductionTo
  <2> QED BY <1>1, <2>1
<1> QED BY <1>2, <1>5, <1>8 DEF Takes, I

\* A function of 1..n is a sequence.
LEMMA FunctionIsSeq ==
  ASSUME NEW V, NEW n \in Nat, NEW f \in [1..n -> V]
  PROVE  f \in Seq(V) /\ Len(f) = n
OBVIOUS

-----------------------------------------------------------------------------
(* Bins, one after the other *)

UpTo(A, k) == UNION {A[b] : b \in 1..k}

Gathers(bins, A, S, n) ==
  /\ n \in Nat /\ UpTo(A, 0) = {} /\ UpTo(A, n) = S
  /\ \A k \in 1..n : /\ UpTo(A, k) = UpTo(A, k - 1) \cup A[k] /\ Lists(bins[k], A[k])
                     /\ A[k] \cap UpTo(A, k - 1) = {} /\ A[k] \subseteq S
  /\ \A k \in 0..n : UpTo(A, k) \subseteq S

\* What the first bins hold, bin by bin.
LEMMA GatheredBinByBin ==
  ASSUME NEW bins, NEW A, NEW S, DealsAs(bins, A, S), NEW n, n = Len(bins)
  PROVE  Gathers(bins, A, S, n)
<1>1. Dealt(bins, A, S, n)
  BY DealsOpen
<1>2. /\ n \in Nat
      /\ \A b \in 1..n : Lists(bins[b], A[b]) /\ A[b] \subseteq S
      /\ \A b, c \in 1..n : b # c => A[b] \cap A[c] = {}
      /\ \A x \in S : \E b \in 1..n : x \in A[b]
  BY <1>1, Zenon DEF Dealt
<1>3. UpTo(A, 0) = {}
  <2>1. 1..0 = {}
    OBVIOUS
  <2> QED BY <2>1 DEF UpTo
<1>4. UpTo(A, n) = S
  BY <1>2 DEF UpTo
<1>5. ASSUME NEW k \in 1..n
      PROVE  UpTo(A, k) = UpTo(A, k - 1) \cup A[k] /\ A[k] \cap UpTo(A, k - 1) = {}
  <2>1. 1..k = 1..(k - 1) \cup {k} /\ 1..(k - 1) \subseteq 1..n /\ k \notin 1..(k - 1)
    BY <1>2
  <2>2. UpTo(A, k) = UpTo(A, k - 1) \cup A[k]
    BY <2>1 DEF UpTo
  <2>3. A[k] \cap UpTo(A, k - 1) = {}
    BY <1>2, <2>1 DEF UpTo
  <2> QED BY <2>2, <2>3
<1>6. ASSUME NEW k \in 0..n PROVE UpTo(A, k) \subseteq S
  <2>1. 1..k \subseteq 1..n
    BY <1>2
  <2> QED BY <1>2, <2>1 DEF UpTo
<1> QED BY <1>2, <1>3, <1>4, <1>5, <1>6 DEF Gathers

\* Bins in the reverse order.
LEMMA PacksReversed ==
  ASSUME NEW bins, NEW S, NEW lens, NEW cap, Packs(bins, S, lens, cap)
  PROVE  Packs(Reverse(bins), S, lens, cap) /\ Len(Reverse(bins)) = Len(bins)
<1>1. PICK A : DealsAs(bins, A, S)
  BY DEF Packs, Deals
<1> DEFINE n == Len(bins)
           r == Reverse(bins)
           B == [b \in 1..n |-> A[(n - b) + 1]]
<1>2. Dealt(bins, A, S, n)
  BY <1>1, DealsOpen
<1>3. /\ n \in Nat /\ bins \in Seq(Seq(S))
      /\ \A b \in 1..n : Lists(bins[b], A[b]) /\ A[b] \subseteq S
      /\ \A b, c \in 1..n : b # c => A[b] \cap A[c] = {}
      /\ \A x \in S : \E b \in 1..n : x \in A[b]
  BY <1>2, Zenon DEF Dealt
<1> HIDE DEF n
<1>4. r \in Seq(Seq(S)) /\ Len(r) = n /\ \A b \in 1..n : r[b] = bins[(n - b) + 1]
  <2>1. r = [b \in 1..n |-> bins[(n - b) + 1]]
    BY DEF Reverse, n
  <2>2. \A b \in 1..n : (n - b) + 1 \in 1..n
    BY <1>3
  <2>3. \A b \in 1..n : bins[(n - b) + 1] \in Seq(S)
    BY <1>3, <2>2 DEF n
  <2>4. r \in [1..n -> Seq(S)] /\ \A b \in 1..n : r[b] = bins[(n - b) + 1]
    <3> HIDE DEF r
    <3> QED BY <2>1, <2>3
  <2> HIDE DEF r
  <2> QED BY <1>3, <2>4, FunctionIsSeq
<1>5. \A b \in 1..n : (n - b) + 1 \in 1..n /\ (n - ((n - b) + 1)) + 1 = b
  BY <1>3
<1> HIDE DEF r
<1>6. \A b \in 1..n : Lists(r[b], B[b]) /\ B[b] \subseteq S
  BY <1>3, <1>4, <1>5
<1>7. \A b, c \in 1..n : b # c => B[b] \cap B[c] = {}
  <2> TAKE b, c \in 1..n
  <2> HAVE b # c
  <2>1. (n - b) + 1 \in 1..n /\ (n - c) + 1 \in 1..n /\ (n - b) + 1 # (n - c) + 1
    BY <1>3
  <2> QED BY <1>3, <2>1
<1>8. \A x \in S : \E b \in 1..n : x \in B[b]
  <2> TAKE x \in S
  <2>1. PICK b \in 1..n : x \in A[b]
    BY <1>3
  <2>2. (n - b) + 1 \in 1..n /\ B[(n - b) + 1] = A[b]
    BY <1>5
  <2> QED BY <2>1, <2>2
<1> HIDE DEF B
<1>9. Deals(r, S)
  <2> DEFINE V == Seq(S)
  <2>1. r \in Seq(V) /\ n = Len(r)
    BY <1>4
  <2> HIDE DEF V
  <2>2. \A b \in 1..n : Lists(r[b], B[b]) /\ B[b] \subseteq S
    BY <1>6
  <2> QED BY ONLY <2>1, <2>2, <1>7, <1>8, DealsClose
<1>10. \A b \in 1..Len(r) : r[b] # <<>> /\ Load(r[b], lens) <= cap
  BY <1>4, <1>5 DEF Packs, n
<1> QED BY <1>4, <1>9, <1>10 DEF Packs, r, n

-----------------------------------------------------------------------------
(* ModifiedFirstFitDecreasingPacker *)

\* What the phases hand on.
Sorted4(I) == [bins : Seq(Seq(I)), medium : Seq(I), small : Seq(I), tiny : Seq(I)]

\* Each index of S is in a bin or in one of the lists.
Phase(acc, S, lens, cap) ==
  \E B, M, C, Y \in SUBSET S :
    /\ Packs(acc.bins, B, lens, cap)
    /\ Lists(acc.medium, M) /\ Lists(acc.small, C) /\ Lists(acc.tiny, Y)
    /\ B \cup M \cup C \cup Y = S
    /\ B \cap M = {} /\ B \cap C = {} /\ B \cap Y = {}
    /\ M \cap C = {} /\ M \cap Y = {} /\ C \cap Y = {}

\* Indices alone in bins.
LEMMA PacksSingles ==
  ASSUME NEW lens, NEW cap, Packable(lens, cap), NEW S \in SUBSET (1..Len(lens)),
         NEW s, Lists(s, S), NEW bins, bins = [k \in 1..Len(s) |-> <<s[k]>>]
  PROVE  Packs(bins, S, lens, cap)
<1> DEFINE n == Len(s)
           A == [k \in 1..n |-> {s[k]}]
<1>1. Listed(s, S, n)
  BY ListsOpen
<1>2. /\ n \in Nat /\ \A k, l \in 1..n : s[k] = s[l] => k = l
      /\ \A x \in S : \E k \in 1..n : s[k] = x
      /\ \A k \in 1..n : s[k] \in S
  BY <1>1, Zenon DEF Listed
<1> HIDE DEF n
<1>3. bins \in Seq(Seq(S)) /\ n = Len(bins) /\ \A k \in 1..n : bins[k] = <<s[k]>>
  <2>1. bins = [k \in 1..n |-> <<s[k]>>]
    BY DEF n
  <2>2. \A k \in 1..n : <<s[k]>> \in Seq(S)
    BY <1>2
  <2> QED BY <1>2, <2>1, <2>2
<1>4. \A b \in 1..n : Lists(bins[b], A[b]) /\ A[b] \subseteq S
  <2> TAKE b \in 1..n
  <2>1. bins[b] = <<s[b]>> /\ A[b] = {s[b]} /\ s[b] \in S
    BY <1>2, <1>3
  <2>2. Lists(<<s[b]>>, {s[b]})
    BY ListsOne
  <2>3. Lists(bins[b], A[b])
    BY ONLY <2>1, <2>2, Zenon
  <2> QED BY <2>1, <2>3
<1>5. \A b, c \in 1..n : b # c => A[b] \cap A[c] = {}
  BY <1>2
<1>6. \A x \in S : \E b \in 1..n : x \in A[b]
  BY <1>2
<1> HIDE DEF A
<1>7. Deals(bins, S)
  <2>1. bins \in Seq(Seq(S)) /\ n = Len(bins)
    BY <1>3
  <2> QED BY ONLY <2>1, <1>4, <1>5, <1>6, DealsClose
<1>8. \A b \in 1..n : bins[b] # <<>> /\ Load(bins[b], lens) <= cap
  <2> TAKE b \in 1..n
  <2>1. lens[s[b]] \in Nat /\ lens[s[b]] <= cap
    <3>1. s[b] \in 1..Len(lens)
      BY <1>2
    <3> QED BY ONLY <3>1, Packable(lens, cap) DEF Packable
  <2> QED BY <1>3, <2>1, LoadOfOne
<1> QED BY <1>3, <1>7, <1>8 DEF Packs

\* Phase 1 sorts the sequences into four classes.
LEMMA ClassifiedPhase ==
  ASSUME NEW lens, NEW cap, Packable(lens, cap)
  PROVE  Phase(Classified(lens, cap), 1..Len(lens), lens, cap)
<1> DEFINE I == 1..Len(lens)
           B == {i \in I : 2 * lens[i] > cap}
           M == {i \in I : IsMedium(lens[i], cap)}
           C == {i \in I : 3 * lens[i] <= cap /\ 6 * lens[i] > cap}
           Y == {i \in I : 6 * lens[i] <= cap}
           large == LongestFirst(B, lens)
           bins == [k \in 1..Len(large) |-> <<large[k]>>]
           acc == Classified(lens, cap)
<1>1. acc.bins = bins /\ acc.medium = LongestFirst(M, lens)
      /\ acc.small = ShortestFirst(C, lens) /\ acc.tiny = ShortestFirst(Y, lens)
  BY DEF Classified
<1>2. I \in SUBSET Int /\ cap \in Int /\ \A i \in I : lens[i] \in Nat
  BY DEF Packable
<1>3. IsFiniteSet(I)
  <2>1. 1 \in Int /\ Len(lens) \in Int
    BY DEF Packable
  <2> QED BY ONLY <2>1, FS_Interval
<1>4. /\ B \cup M \cup C \cup Y = I
      /\ B \cap M = {} /\ B \cap C = {} /\ B \cap Y = {}
      /\ M \cap C = {} /\ M \cap Y = {} /\ C \cap Y = {}
  <2>1. \A i \in I : /\ i \in B <=> 2 * lens[i] > cap
                     /\ i \in M <=> 2 * lens[i] <= cap /\ 3 * lens[i] > cap
                     /\ i \in C <=> 3 * lens[i] <= cap /\ 6 * lens[i] > cap
                     /\ i \in Y <=> 6 * lens[i] <= cap
    BY DEF IsMedium
  <2>2. B \subseteq I /\ M \subseteq I /\ C \subseteq I /\ Y \subseteq I
    OBVIOUS
  <2> HIDE DEF B, M, C, Y, I
  <2>3. ASSUME NEW i \in I
        PROVE  /\ i \in B \/ i \in M \/ i \in C \/ i \in Y
               /\ ~ (i \in B /\ i \in M) /\ ~ (i \in B /\ i \in C) /\ ~ (i \in B /\ i \in Y)
               /\ ~ (i \in M /\ i \in C) /\ ~ (i \in M /\ i \in Y) /\ ~ (i \in C /\ i \in Y)
    <3>1. lens[i] \in Nat
      BY <1>2
    <3> DEFINE l == lens[i]
    <3>2. /\ i \in B <=> 2 * l > cap
          /\ i \in M <=> 2 * l <= cap /\ 3 * l > cap
          /\ i \in C <=> 3 * l <= cap /\ 6 * l > cap
          /\ i \in Y <=> 6 * l <= cap
      BY <2>1
    <3>3. l \in Nat
      BY <3>1
    <3> HIDE DEF l
    <3> QED BY ONLY <1>2, <3>2, <3>3
  <2> QED BY ONLY <2>2, <2>3
<1>5. ASSUME NEW Z \in SUBSET I
      PROVE  Z \in SUBSET Int /\ IsFiniteSet(Z) /\ Weighs(lens, Z)
  <2> HIDE DEF I
  <2>1. Z \in SUBSET Int /\ Weighs(lens, Z)
    BY <1>2 DEF Weighs
  <2> QED BY <1>3, <2>1, FS_Subset
<1>6. B \in SUBSET I /\ M \in SUBSET I /\ C \in SUBSET I /\ Y \in SUBSET I
  OBVIOUS
<1> HIDE DEF B, M, C, Y, I, acc
<1>7. /\ Lists(large, B) /\ Lists(LongestFirst(M, lens), M)
      /\ Lists(ShortestFirst(C, lens), C) /\ Lists(ShortestFirst(Y, lens), Y)
  BY <1>5, <1>6, LongestFirstLists, ShortestFirstLists
<1>8. Packs(bins, B, lens, cap)
  <2> HIDE DEF large
  <2>1. B \in SUBSET (1..Len(lens)) /\ bins = [k \in 1..Len(large) |-> <<large[k]>>]
    BY <1>6 DEF I
  <2> HIDE DEF bins
  <2> QED BY <1>7, <2>1, PacksSingles
<1> HIDE DEF bins, large
<1>9. Phase(acc, I, lens, cap)
  BY <1>1, <1>4, <1>6, <1>7, <1>8 DEF Phase
<1> QED BY <1>9 DEF acc, I

\* It hands on sequences of indices.
LEMMA ClassifiedType ==
  ASSUME NEW lens, NEW cap, Packable(lens, cap)
  PROVE  Classified(lens, cap) \in Sorted4(1..Len(lens))
<1> DEFINE I == 1..Len(lens)
           acc == Classified(lens, cap)
<1>1. PICK B \in SUBSET I, M \in SUBSET I, C \in SUBSET I, Y \in SUBSET I :
        /\ Packs(acc.bins, B, lens, cap)
        /\ Lists(acc.medium, M) /\ Lists(acc.small, C) /\ Lists(acc.tiny, Y)
  <2>1. Phase(acc, I, lens, cap)
    BY ClassifiedPhase
  <2> HIDE DEF acc, I
  <2> QED BY <2>1 DEF Phase
<1>2. acc = [bins |-> acc.bins, medium |-> acc.medium, small |-> acc.small, tiny |-> acc.tiny]
  BY DEF Classified
<1> HIDE DEF acc, I
<1>3. /\ acc.bins \in Seq(Seq(I)) /\ acc.medium \in Seq(I) /\ acc.small \in Seq(I)
      /\ acc.tiny \in Seq(I)
  <2>1. acc.bins \in Seq(Seq(B)) /\ acc.medium \in Seq(M) /\ acc.small \in Seq(C) /\ acc.tiny \in Seq(Y)
    BY <1>1, PacksSeq DEF Lists
  <2> QED BY <2>1
<1>4. acc \in Sorted4(I)
  BY <1>2, <1>3 DEF Sorted4
<1> QED BY <1>4 DEF acc, I

\* Lists of indices in a record: its fields.
LEMMA Sorted4Fields ==
  ASSUME NEW I, NEW acc \in Sorted4(I)
  PROVE  /\ acc.bins \in Seq(Seq(I)) /\ acc.medium \in Seq(I) /\ acc.small \in Seq(I)
         /\ acc.tiny \in Seq(I)
         /\ acc = [bins |-> acc.bins, medium |-> acc.medium, small |-> acc.small, tiny |-> acc.tiny]
BY DEF Sorted4

\* What phase 2 makes of a bin: it gets the medium sequence at m, if any.
AddedMedium(r, acc, bins, medium, bin, m, lens, cap) ==
  /\ r = [bins |-> IF m = 0 THEN Append(bins, bin) ELSE Append(bins, Append(bin, medium[m])),
          medium |-> IF m = 0 THEN medium ELSE RemoveAt(medium, m),
          small |-> acc.small, tiny |-> acc.tiny]
  /\ m \in 0..Len(medium) /\ (m # 0 => Load(bin, lens) + lens[medium[m]] <= cap)
AddsMedium(r, acc, bins, medium, bin, lens, cap) ==
  \E m : AddedMedium(r, acc, bins, medium, bin, m, lens, cap)

\* The sequence is one that fits.
LEMMA MediumFound ==
  ASSUME NEW I, NEW acc \in Sorted4(I), NEW bin, NEW lens, NEW cap
  PROVE  AddsMedium(WithMedium(acc, bin, lens, cap), acc, acc.bins, acc.medium, bin, lens, cap)
<1> DEFINE n == Len(acc.medium)
           P == {j \in 1..n : Fits(acc.medium[j], bin, lens, cap)}
           m == SelectInSeq(acc.medium, LAMBDA i : Fits(i, bin, lens, cap))
           r == WithMedium(acc, bin, lens, cap)
<1>1. Finds(m, n, P)
  <2>1. m = IF P # {} THEN Min(P) ELSE 0
    BY DEF SelectInSeq
  <2>2. n \in Nat
    BY Sorted4Fields
  <2> HIDE DEF m, n
  <2> QED BY <2>1, <2>2, MinAndMaxIn
<1>2. r = IF m = 0
          THEN [acc EXCEPT !.bins = Append(acc.bins, bin)]
          ELSE [acc EXCEPT !.bins = Append(acc.bins, Append(bin, acc.medium[m])),
                           !.medium = RemoveAt(acc.medium, m)]
  BY DEF WithMedium
<1> HIDE DEF m, r
<1>3. r = [bins |-> IF m = 0 THEN Append(acc.bins, bin) ELSE Append(acc.bins, Append(bin, acc.medium[m])),
           medium |-> IF m = 0 THEN acc.medium ELSE RemoveAt(acc.medium, m),
           small |-> acc.small, tiny |-> acc.tiny]
  <2> DEFINE b == acc.bins
             d == acc.medium
             c == acc.small
             y == acc.tiny
             X == Append(b, Append(bin, d[m]))
             Z == RemoveAt(d, m)
             W == Append(b, bin)
  <2>1. acc = [bins |-> b, medium |-> d, small |-> c, tiny |-> y]
    BY Sorted4Fields
  <2>2. r = IF m = 0 THEN [acc EXCEPT !.bins = W] ELSE [acc EXCEPT !.bins = X, !.medium = Z]
    BY <1>2
  <2> HIDE DEF b, d, c, y, X, Z, W
  <2>3. CASE m = 0
    <3>1. r = [bins |-> W, medium |-> d, small |-> c, tiny |-> y]
      BY <2>1, <2>2, <2>3
    <3> QED BY <2>3, <3>1 DEF W, b, d, c, y
  <2>4. CASE m # 0
    <3>1. r = [bins |-> X, medium |-> Z, small |-> c, tiny |-> y]
      BY <2>1, <2>2, <2>4
    <3> QED BY <2>4, <3>1 DEF X, Z, b, d, c, y
  <2> QED BY <2>3, <2>4
<1>4. n \in Nat
  BY Sorted4Fields
<1>5. m \in 0..n /\ (m # 0 => Load(bin, lens) + lens[acc.medium[m]] <= cap)
  BY <1>1, <1>4 DEF Finds, Fits
<1>6. AddedMedium(r, acc, acc.bins, acc.medium, bin, m, lens, cap)
  BY <1>3, <1>5 DEF AddedMedium
<1> QED BY <1>6, Zenon DEF AddsMedium, r

\* The result is of the same type.
LEMMA WithMediumType ==
  ASSUME NEW I, NEW acc \in Sorted4(I), NEW bin \in Seq(I), NEW lens, NEW cap
  PROVE  /\ WithMedium(acc, bin, lens, cap) \in Sorted4(I)
         /\ WithMedium(acc, bin, lens, cap).small = acc.small
         /\ WithMedium(acc, bin, lens, cap).tiny = acc.tiny
<1> DEFINE r == WithMedium(acc, bin, lens, cap)
           bins == acc.bins
           medium == acc.medium
<1>1. bins \in Seq(Seq(I)) /\ medium \in Seq(I) /\ acc.small \in Seq(I) /\ acc.tiny \in Seq(I)
  BY Sorted4Fields
<1>2. AddsMedium(r, acc, bins, medium, bin, lens, cap)
  BY MediumFound
<1> HIDE DEF r, bins, medium
<1>3. PICK m : AddedMedium(r, acc, bins, medium, bin, m, lens, cap)
  BY <1>2, Zenon DEF AddsMedium
<1>4. /\ r = [bins |-> IF m = 0 THEN Append(bins, bin) ELSE Append(bins, Append(bin, medium[m])),
              medium |-> IF m = 0 THEN medium ELSE RemoveAt(medium, m),
              small |-> acc.small, tiny |-> acc.tiny]
      /\ m \in 0..Len(medium)
  BY <1>3, Zenon DEF AddedMedium
<1>5. m = 0 \/ m \in 1..Len(medium)
  BY <1>1, <1>4
<1>6. Append(bins, bin) \in Seq(Seq(I))
  BY <1>1
<1>7. ASSUME m \in 1..Len(medium)
      PROVE  Append(bins, Append(bin, medium[m])) \in Seq(Seq(I)) /\ RemoveAt(medium, m) \in Seq(I)
  <2>1. medium[m] \in I
    BY <1>1, <1>7
  <2> QED BY <1>1, <1>7, <2>1, Removed
<1>8. r.bins \in Seq(Seq(I)) /\ r.medium \in Seq(I) /\ r.small = acc.small /\ r.tiny = acc.tiny
  BY <1>1, <1>4, <1>5, <1>6, <1>7
<1>9. r \in Sorted4(I)
  BY <1>1, <1>4, <1>5, <1>6, <1>7 DEF Sorted4
<1> QED BY <1>8, <1>9 DEF r

\* The bins so far hold the sequences of the large bins passed, and the medium
\* ones that are no longer in the list.
MediumInv(bins, medium, U, M0, lens, cap) ==
  \E M \in SUBSET M0 : Lists(medium, M) /\ Packs(bins, U \cup (M0 \ M), lens, cap)

\* A bin that takes an index with room for it.
LEMMA OneMoreInBin ==
  ASSUME NEW lens, NEW cap, NEW I, Weighs(lens, I), NEW bin, NEW A \in SUBSET I, Lists(bin, A),
         NEW x \in I, x \notin A, Load(bin, lens) + lens[x] <= cap
  PROVE  /\ Lists(Append(bin, x), A \cup {x}) /\ Append(bin, x) # <<>>
         /\ Load(Append(bin, x), lens) <= cap
<1>1. bin \in Seq(I)
  <2>1. bin \in Seq(A)
    BY DEF Lists
  <2> QED BY <2>1
<1>2. Load(Append(bin, x), lens) = Load(bin, lens) + lens[x]
  BY <1>1, LoadOfAppend
<1>3. Append(bin, x) # <<>>
  BY <1>1, AppendNotEmpty
<1>4. Lists(Append(bin, x), A \cup {x})
  BY ListsAppend
<1> QED BY <1>2, <1>3, <1>4

\* A bin that follows the bins of U, with A in it; S0 is the list at the start.
NextBin(bin, A, U, S0, I, lens, cap) ==
  /\ Lists(bin, A) /\ bin # <<>> /\ Load(bin, lens) <= cap
  /\ A \in SUBSET I /\ U \in SUBSET I /\ S0 \in SUBSET I
  /\ A \cap U = {} /\ A \cap S0 = {} /\ U \cap S0 = {}

\* One more large bin.
LEMMA WithMediumKeeps ==
  ASSUME NEW lens, NEW cap, NEW I, Weighs(lens, I),
         NEW acc, NEW r, NEW bins, NEW medium, NEW bin, NEW m,
         AddedMedium(r, acc, bins, medium, bin, m, lens, cap),
         NEW U, NEW M0, MediumInv(bins, medium, U, M0, lens, cap),
         NEW A, NextBin(bin, A, U, M0, I, lens, cap)
  PROVE  MediumInv(r.bins, r.medium, U \cup A, M0, lens, cap)
<1>0. /\ Lists(bin, A) /\ bin # <<>> /\ Load(bin, lens) <= cap
      /\ A \in SUBSET I /\ U \in SUBSET I /\ M0 \in SUBSET I
      /\ A \cap U = {} /\ A \cap M0 = {} /\ U \cap M0 = {}
  BY Zenon DEF NextBin
<1>1. PICK M \in SUBSET M0 : Lists(medium, M) /\ Packs(bins, U \cup (M0 \ M), lens, cap)
  BY DEF MediumInv
<1> DEFINE D == U \cup (M0 \ M)
<1>2. Packs(bins, D, lens, cap) /\ D \cap A = {} /\ D \in SUBSET I
  BY <1>0, <1>1
<1>3. /\ r.bins = IF m = 0 THEN Append(bins, bin) ELSE Append(bins, Append(bin, medium[m]))
      /\ r.medium = IF m = 0 THEN medium ELSE RemoveAt(medium, m)
      /\ m \in 0..Len(medium) /\ (m # 0 => Load(bin, lens) + lens[medium[m]] <= cap)
  BY DEF AddedMedium
<1>4. CASE m = 0
  <2>1. r.bins = Append(bins, bin) /\ r.medium = medium
    BY <1>3, <1>4
  <2>2. (U \cup A) \cup (M0 \ M) = D \cup A
    OBVIOUS
  <2> HIDE DEF D
  <2>3. Packs(r.bins, D \cup A, lens, cap)
    BY <1>0, <1>2, <2>1, PacksAppend
  <2> QED BY <1>1, <2>1, <2>2, <2>3 DEF MediumInv
<1>5. CASE m # 0
  <2> DEFINE x == medium[m]
             b == Append(bin, x)
             N1 == M \ {x}
  <2>1. r.bins = Append(bins, b) /\ r.medium = RemoveAt(medium, m) /\ Load(bin, lens) + lens[x] <= cap
    BY <1>3, <1>5
  <2>2. m \in 1..Len(medium)
    <3>1. Len(medium) \in Nat
      BY <1>1 DEF Lists
    <3> QED BY <1>3, <1>5, <3>1
  <2>3. x \in M /\ Lists(r.medium, N1)
    BY <1>1, <2>1, <2>2, ListsRemoved
  <2>4. D \cap (A \cup {x}) = {} /\ (U \cup A) \cup (M0 \ N1) = D \cup (A \cup {x})
        /\ N1 \in SUBSET M0 /\ x \in I /\ x \notin A
    BY <1>0, <2>3
  <2> HIDE DEF x, D, N1
  <2>5. Lists(b, A \cup {x}) /\ b # <<>> /\ Load(b, lens) <= cap
    BY <1>0, <2>1, <2>4, OneMoreInBin
  <2> HIDE DEF b
  <2>6. Packs(r.bins, D \cup (A \cup {x}), lens, cap)
    BY <1>2, <2>1, <2>4, <2>5, PacksAppend
  <2>7. Packs(r.bins, (U \cup A) \cup (M0 \ N1), lens, cap)
    BY <2>4, <2>6
  <2> QED BY <2>3, <2>4, <2>7 DEF MediumInv
<1> QED BY <1>4, <1>5

\* Phase 2 keeps every sequence.
LEMMA AddMediumPhase ==
  ASSUME NEW lens, NEW cap, NEW I, Weighs(lens, I), NEW start \in Sorted4(I), Phase(start, I, lens, cap)
  PROVE  /\ AddMedium(start, lens, cap) \in Sorted4(I)
         /\ Phase(AddMedium(start, lens, cap), I, lens, cap)
<1> DEFINE s == start.bins
           n == Len(s)
           V == Sorted4(I)
           base == [start EXCEPT !.bins = <<>>]
           small == start.small
           tiny == start.tiny
           medium == start.medium
<1>1. PICK B \in SUBSET I, M0 \in SUBSET I, C \in SUBSET I, Y \in SUBSET I :
        /\ Packs(s, B, lens, cap)
        /\ Lists(medium, M0) /\ Lists(small, C) /\ Lists(tiny, Y)
        /\ B \cup M0 \cup C \cup Y = I
        /\ B \cap M0 = {} /\ B \cap C = {} /\ B \cap Y = {}
        /\ M0 \cap C = {} /\ M0 \cap Y = {} /\ C \cap Y = {}
  BY DEF Phase
<1>2. PICK A : DealsAs(s, A, B)
  BY <1>1 DEF Packs, Deals
<1>3. Gathers(s, A, B, n)
  BY <1>2, GatheredBinByBin
<1>4. /\ n \in Nat /\ UpTo(A, 0) = {} /\ UpTo(A, n) = B
      /\ \A k \in 1..n : /\ UpTo(A, k) = UpTo(A, k - 1) \cup A[k] /\ Lists(s[k], A[k])
                         /\ A[k] \cap UpTo(A, k - 1) = {} /\ A[k] \subseteq B
      /\ \A k \in 0..n : UpTo(A, k) \subseteq B
  BY <1>3, Zenon DEF Gathers
<1>5. s \in Seq(Seq(I)) /\ medium \in Seq(I) /\ small \in Seq(I) /\ tiny \in Seq(I)
      /\ base = [bins |-> <<>>, medium |-> medium, small |-> small, tiny |-> tiny]
  BY Sorted4Fields
<1>6. DOMAIN s = 1..n /\ base \in V /\ \A k \in 1..n : s[k] \in Seq(I)
  <2>1. <<>> \in Seq(Seq(I))
    OBVIOUS
  <2> HIDE DEF s, medium, small, tiny, base
  <2> QED BY <1>5, <2>1 DEF Sorted4
<1>7. \A a \in V : \A k \in 1..n : WithMedium(a, s[k], lens, cap) \in V
  <2>1. ASSUME NEW a \in V, NEW k \in 1..n PROVE WithMedium(a, s[k], lens, cap) \in V
    <3>1. s[k] \in Seq(I)
      BY <1>6
    <3> HIDE DEF s
    <3> QED BY <3>1, WithMediumType
  <2> QED BY <2>1
<1>60. base = [start EXCEPT !.bins = <<>>] /\ s = start.bins
  OBVIOUS
<1>61. base.bins = <<>> /\ base.medium = medium /\ base.small = small /\ base.tiny = tiny
  BY <1>5
<1> HIDE DEF V, s, base, n, small, tiny, medium
<1>8. AddMediumStepsIn(V, n, base, s, start, lens, cap)
  BY ONLY <1>4, <1>6, <1>60, <1>7, AddMediumSteps
<1>9. PICK st \in [0..n -> V] :
        /\ st[0] = base /\ AddMedium(start, lens, cap) = st[n]
        /\ \A k \in 1..n : st[k] = WithMedium(st[k - 1], s[k], lens, cap)
  BY <1>8, Zenon DEF AddMediumStepsIn
<1> DEFINE T == {k \in 0..n : /\ MediumInv(st[k].bins, st[k].medium, UpTo(A, k), M0, lens, cap)
                              /\ st[k].small = small /\ st[k].tiny = tiny}
<1>10. 0 \in T
  <2> DEFINE e == <<>>
  <2>1. Packs(e, {} \cup (M0 \ M0), lens, cap)
    <3>1. {} \cup (M0 \ M0) = {}
      OBVIOUS
    <3> QED BY <3>1, PacksNone
  <2>2. MediumInv(e, medium, {}, M0, lens, cap)
    <3> HIDE DEF e
    <3> QED BY <1>1, <2>1 DEF MediumInv
  <2>3. st[0].bins = e /\ st[0].medium = medium /\ st[0].small = small /\ st[0].tiny = tiny
    BY <1>61, <1>9
  <2> HIDE DEF e
  <2>4. MediumInv(st[0].bins, st[0].medium, UpTo(A, 0), M0, lens, cap)
    BY <1>4, <2>2, <2>3
  <2> QED BY <1>4, <2>3, <2>4
<1>11. ASSUME NEW k \in 0..(n - 1), k \in T PROVE k + 1 \in T
  <2>1. k + 1 \in 1..n /\ k + 1 \in 0..n /\ (k + 1) - 1 = k /\ k \in 0..n
    BY <1>4
  <2> DEFINE a == st[k]
             r == st[k + 1]
             b == s[k + 1]
             U == UpTo(A, k)
             W == A[k + 1]
  <2>2. r = WithMedium(a, b, lens, cap) /\ a \in V /\ b \in Seq(I)
    BY <1>6, <1>9, <2>1
  <2>3. UpTo(A, k + 1) = U \cup W /\ Lists(b, W) /\ W \cap U = {} /\ W \subseteq B /\ U \subseteq B
    BY <1>4, <2>1
  <2>4. MediumInv(a.bins, a.medium, U, M0, lens, cap) /\ a.small = small /\ a.tiny = tiny
    BY <1>11
  <2>5. b # <<>> /\ Load(b, lens) <= cap
    <3>1. k + 1 \in 1..Len(s)
      BY <2>1 DEF n
    <3> QED BY <1>1, <3>1 DEF Packs
  <2> HIDE DEF a, r, b, U, W
  <2>6. AddsMedium(r, a, a.bins, a.medium, b, lens, cap)
    BY <2>2, MediumFound DEF V
  <2>7. r.small = small /\ r.tiny = tiny
    BY <2>2, <2>4, WithMediumType DEF V
  <2>8. PICK m : AddedMedium(r, a, a.bins, a.medium, b, m, lens, cap)
    BY <2>6, Zenon DEF AddsMedium
  <2> DEFINE abins == a.bins
             amedium == a.medium
  <2>9. U \in SUBSET I /\ U \cap M0 = {} /\ W \in SUBSET I /\ W \cap M0 = {}
    BY <1>1, <2>3
  <2>10. AddedMedium(r, a, abins, amedium, b, m, lens, cap) /\ MediumInv(abins, amedium, U, M0, lens, cap)
    BY <2>4, <2>8
  <2> HIDE DEF abins, amedium
  <2>110. NextBin(b, W, U, M0, I, lens, cap)
    BY <2>3, <2>5, <2>9 DEF NextBin
  <2>11. MediumInv(r.bins, r.medium, U \cup W, M0, lens, cap)
    BY ONLY Weighs(lens, I), <2>10, <2>110, WithMediumKeeps
  <2>12. MediumInv(r.bins, r.medium, UpTo(A, k + 1), M0, lens, cap)
    BY <2>3, <2>11
  <2> QED BY <2>1, <2>7, <2>12 DEF r
<1>12. n \in T
  <2>1. \A k \in 0..n : k \in T
    <3> HIDE DEF T
    <3> QED BY <1>4, <1>10, <1>11, InductionTo
  <2> QED BY <1>4, <2>1
<1> DEFINE acc == st[n]
<1>13. acc \in V /\ MediumInv(acc.bins, acc.medium, B, M0, lens, cap) /\ acc.small = small /\ acc.tiny = tiny
  BY <1>4, <1>12
<1> HIDE DEF acc
<1>14. PICK M \in SUBSET M0 : Lists(acc.medium, M) /\ Packs(acc.bins, B \cup (M0 \ M), lens, cap)
  BY <1>13, Zenon DEF MediumInv
<1> DEFINE D == B \cup (M0 \ M)
<1>15. /\ D \in SUBSET I /\ M \in SUBSET I /\ D \cup M \cup C \cup Y = I
       /\ D \cap M = {} /\ D \cap C = {} /\ D \cap Y = {}
       /\ M \cap C = {} /\ M \cap Y = {}
  BY <1>1
<1>16. Packs(acc.bins, D, lens, cap)
  BY <1>14
<1> HIDE DEF D
<1>17. Phase(acc, I, lens, cap)
  BY <1>1, <1>13, <1>14, <1>15, <1>16 DEF Phase
<1> QED BY <1>9, <1>13, <1>17 DEF acc, V

-----------------------------------------------------------------------------
(* Phase 3 *)

\* What phase 3 makes of a bin: it gets the first of the small sequences and
\* the one at k of the others, if any.
AddedSmall(r, acc, bins, small, bin, k, lens, cap) ==
  /\ r = [bins |-> IF k = 0 THEN <<bin>> \o bins
                   ELSE <<Append(Append(bin, Head(small)), Tail(small)[k])>> \o bins,
          medium |-> acc.medium,
          small |-> IF k = 0 THEN small ELSE RemoveAt(Tail(small), k),
          tiny |-> acc.tiny]
  /\ k # 0 => /\ small # <<>> /\ k \in 1..Len(Tail(small))
              /\ (Load(bin, lens) + lens[Head(small)]) + lens[Tail(small)[k]] <= cap
AddsSmall(r, acc, bins, small, bin, lens, cap) ==
  \E k : AddedSmall(r, acc, bins, small, bin, k, lens, cap)

\* The two sequences fit.
LEMMA SmallFound ==
  ASSUME NEW I, NEW acc \in Sorted4(I), NEW bin \in Seq(I), NEW lens, Weighs(lens, I), NEW cap \in Int
  PROVE  AddsSmall(WithSmall(acc, bin, lens, cap), acc, acc.bins, acc.small, bin, lens, cap)
<1> DEFINE r == WithSmall(acc, bin, lens, cap)
           room == cap - Load(bin, lens)
           bins == acc.bins
           small == acc.small
           t == Tail(small)
           Skipped == \/ \E j \in 1..Len(bin) : IsMedium(lens[bin[j]], cap)
                      \/ Len(small) < 2
                      \/ lens[small[1]] + lens[small[2]] > room
           k == SelectLastInSeq(t, LAMBDA i : lens[i] <= room - lens[Head(small)])
           P == {j \in 1..Len(t) : lens[t[j]] <= room - lens[Head(small)]}
<1>1. r = IF Skipped THEN [acc EXCEPT !.bins = <<bin>> \o bins]
          ELSE IF k = 0 THEN [acc EXCEPT !.bins = <<bin>> \o bins, !.small = t]
          ELSE [acc EXCEPT !.bins = <<Append(Append(bin, Head(small)), t[k])>> \o bins,
                           !.small = RemoveAt(t, k)]
  BY DEF WithSmall
<1>2. acc = [bins |-> bins, medium |-> acc.medium, small |-> small, tiny |-> acc.tiny]
      /\ small \in Seq(I)
  BY Sorted4Fields
<1>3. k = IF P # {} THEN Max(P) ELSE 0
  BY DEF SelectLastInSeq
<1>4. room \in Int /\ Load(bin, lens) \in Nat /\ room = cap - Load(bin, lens)
  <2>1. Load(bin, lens) \in Nat
    BY LoadIsTotal
  <2> QED BY <2>1
<1> HIDE DEF r, room, bins, k
<1> DEFINE b2 == Append(Append(bin, Head(small)), t[k])
           X == <<bin>> \o bins
           Z == <<b2>> \o bins
           W == RemoveAt(t, k)
           d == acc.medium
           y == acc.tiny
<1>10. acc = [bins |-> bins, medium |-> d, small |-> small, tiny |-> y]
  BY <1>2
<1>11. r = IF Skipped THEN [acc EXCEPT !.bins = X]
          ELSE IF k = 0 THEN [acc EXCEPT !.bins = X, !.small = t]
          ELSE [acc EXCEPT !.bins = Z, !.small = W]
  BY <1>1
<1>5. CASE Skipped
  <2>1. r = [bins |-> X, medium |-> d, small |-> small, tiny |-> y]
    <3> HIDE DEF X, d, y, small, Skipped
    <3> QED BY <1>5, <1>10, <1>11
  <2>2. AddedSmall(r, acc, bins, small, bin, 0, lens, cap)
    <3> HIDE DEF Skipped, small
    <3> QED BY <2>1 DEF AddedSmall
  <2> HIDE DEF Skipped, small, t
  <2> QED BY <2>2, Zenon DEF AddsSmall, small, r, bins
<1>6. CASE ~ Skipped
  <2> DEFINE n == Len(small)
  <2>1. n \in Nat /\ n >= 2 /\ lens[small[1]] + lens[small[2]] <= room
    <3>1. n \in Nat /\ (n < 2 \/ (small[1] \in I /\ small[2] \in I))
      BY <1>2
    <3>2. n >= 2 /\ ~ (lens[small[1]] + lens[small[2]] > room)
      <4>1. ~ (n < 2) /\ n \in Nat
        BY <1>2, <1>6
      <4> QED BY <1>6, <4>1
    <3> QED BY <1>4, <3>1, <3>2 DEF Weighs
  <2>2. small[1] \in I /\ small[2] \in I /\ Head(small) = small[1] /\ t[1] = small[2] /\ Len(t) = n - 1
        /\ t \in Seq(I) /\ small # <<>>
    <3>1. small # <<>>
      BY <2>1
    <3> QED BY <1>2, <2>1, <3>1
  <2> HIDE DEF Skipped, n, t, small
  <2>3. lens[small[1]] \in Nat /\ lens[small[2]] \in Nat
    BY <2>2 DEF Weighs
  <2>4. 1 \in P
    <3>1. lens[t[1]] <= room - lens[Head(small)]
      <4>1. lens[small[2]] <= room - lens[small[1]]
        BY ONLY <1>4, <2>1, <2>3
      <4>2. t[1] = small[2] /\ Head(small) = small[1]
        BY ONLY <2>2
      <4> QED BY ONLY <4>1, <4>2
    <3>2. 1 \in 1..Len(t)
      BY ONLY <2>1, <2>2
    <3> QED BY ONLY <3>1, <3>2 DEF P
  <2>5. k \in P /\ k \in 1..Len(t) /\ k # 0
    <3>1. Finds(k, Len(t), P)
      <4>1. Len(t) \in Nat /\ P \in SUBSET (1..Len(t))
        BY <2>2
      <4> HIDE DEF P
      <4> QED BY <1>3, <4>1, MinAndMaxIn
    <3>2. k \in P /\ k \in 1..Len(t)
      BY <2>4, <3>1 DEF Finds
    <3>3. k \in 1..Len(t) => k # 0
      <4>1. Len(t) \in Nat
        BY <2>2
      <4> QED BY <4>1
    <3> QED BY <3>2, <3>3
  <2>6. (Load(bin, lens) + lens[Head(small)]) + lens[t[k]] <= cap
    <3>1. t[k] \in I
      BY <2>2, <2>5
    <3>2. lens[t[k]] \in Nat /\ lens[t[k]] <= room - lens[Head(small)]
      BY <2>5, <3>1 DEF Weighs
    <3>3. lens[Head(small)] \in Nat
      BY ONLY <2>2, <2>3
    <3> DEFINE L == Load(bin, lens)
               h == lens[Head(small)]
               u == lens[t[k]]
    <3>4. L \in Nat /\ h \in Nat /\ u \in Nat /\ room = cap - L /\ u <= room - h
      BY ONLY <1>4, <3>2, <3>3
    <3> HIDE DEF L, h, u
    <3>5. (L + h) + u <= cap
      BY ONLY cap \in Int, <3>4
    <3> QED BY ONLY <3>5 DEF L, h, u
  <2>7. r = [bins |-> Z, medium |-> d, small |-> W, tiny |-> y]
    <3> HIDE DEF Z, W, d, y
    <3>1. k # 0
      BY <2>5
    <3> QED BY ONLY <1>6, <1>10, <1>11, <3>1
  <2>8. AddedSmall(r, acc, bins, small, bin, k, lens, cap)
    <3>1. /\ Tail(small) = t /\ small # <<>> /\ k # 0
          /\ Z = <<Append(Append(bin, Head(small)), t[k])>> \o bins /\ W = RemoveAt(t, k)
      BY <2>2, <2>5 DEF t
    <3> HIDE DEF Z, W
    <3>2. r = [bins |-> IF k = 0 THEN <<bin>> \o bins
                   ELSE <<Append(Append(bin, Head(small)), Tail(small)[k])>> \o bins,
          medium |-> acc.medium,
          small |-> IF k = 0 THEN small ELSE RemoveAt(Tail(small), k),
          tiny |-> acc.tiny]
      <4>1. (IF k = 0 THEN <<bin>> \o bins
                   ELSE <<Append(Append(bin, Head(small)), Tail(small)[k])>> \o bins) = Z
        BY <3>1
      <4>2. (IF k = 0 THEN small ELSE RemoveAt(Tail(small), k)) = W
        BY <3>1
      <4> QED BY <2>7, <4>1, <4>2
    <3>3. /\ small # <<>> /\ k \in 1..Len(Tail(small))
          /\ (Load(bin, lens) + lens[Head(small)]) + lens[Tail(small)[k]] <= cap
      BY <2>2, <2>5, <2>6, <3>1
    <3> QED BY <3>2, <3>3, Zenon DEF AddedSmall
  <2> QED BY <2>8, Zenon DEF AddsSmall, small, r, bins
<1> HIDE DEF Skipped
<1> QED BY <1>5, <1>6

\* The result is of the same type.
LEMMA WithSmallType ==
  ASSUME NEW I, NEW acc \in Sorted4(I), NEW bin \in Seq(I), NEW lens, Weighs(lens, I), NEW cap \in Int
  PROVE  /\ WithSmall(acc, bin, lens, cap) \in Sorted4(I)
         /\ WithSmall(acc, bin, lens, cap).medium = acc.medium
         /\ WithSmall(acc, bin, lens, cap).tiny = acc.tiny
<1> DEFINE r == WithSmall(acc, bin, lens, cap)
           bins == acc.bins
           small == acc.small
           t == Tail(small)
           b0(k) == IF k = 0 THEN bin ELSE Append(Append(bin, Head(small)), t[k])
<1>1. bins \in Seq(Seq(I)) /\ small \in Seq(I) /\ acc.medium \in Seq(I) /\ acc.tiny \in Seq(I)
  BY Sorted4Fields
<1>2. AddsSmall(r, acc, bins, small, bin, lens, cap)
  BY SmallFound
<1> HIDE DEF r, bins, small
<1>3. PICK k : AddedSmall(r, acc, bins, small, bin, k, lens, cap)
  BY <1>2, Zenon DEF AddsSmall
<1>4. /\ r = [bins |-> IF k = 0 THEN <<bin>> \o bins
                   ELSE <<Append(Append(bin, Head(small)), t[k])>> \o bins,
              medium |-> acc.medium,
              small |-> IF k = 0 THEN small ELSE RemoveAt(t, k),
              tiny |-> acc.tiny]
      /\ (k # 0 => small # <<>> /\ k \in 1..Len(t))
  BY <1>3, Zenon DEF AddedSmall
<1>5. k = 0 \/ k # 0
  OBVIOUS
<1>6. ASSUME NEW b \in Seq(I) PROVE <<b>> \o bins \in Seq(Seq(I))
  BY <1>1
<1>7. ASSUME k # 0
      PROVE  Append(Append(bin, Head(small)), t[k]) \in Seq(I) /\ RemoveAt(t, k) \in Seq(I)
  <2>1. Head(small) \in I /\ t \in Seq(I) /\ k \in 1..Len(t)
    BY <1>1, <1>4, <1>7
  <2> HIDE DEF t
  <2>2. t[k] \in I
    BY <2>1
  <2> QED BY <2>1, <2>2, Removed
<1>8. r.bins \in Seq(Seq(I)) /\ r.small \in Seq(I) /\ r.medium = acc.medium /\ r.tiny = acc.tiny
  <2> HIDE DEF t
  <2>1. CASE k = 0
    BY <1>1, <1>4, <1>6, <2>1
  <2>2. CASE k # 0
    <3> DEFINE b == Append(Append(bin, Head(small)), t[k])
    <3>1. b \in Seq(I) /\ RemoveAt(t, k) \in Seq(I) /\ r.bins = <<b>> \o bins
      BY <1>4, <1>7, <2>2
    <3> HIDE DEF b
    <3> QED BY <1>4, <1>6, <2>2, <3>1
  <2> QED BY <1>5, <2>1, <2>2
<1>9. r = [bins |-> r.bins, medium |-> acc.medium, small |-> r.small, tiny |-> acc.tiny]
  BY <1>4
<1>10. r \in Sorted4(I)
  BY <1>1, <1>8, <1>9 DEF Sorted4
<1> QED BY <1>8, <1>10 DEF r

\* One more bin, taken from the end.
LEMMA WithSmallKeeps ==
  ASSUME NEW lens, NEW cap \in Int, NEW I, Weighs(lens, I),
         NEW acc, NEW r, NEW bins, NEW small, NEW bin, NEW k,
         AddedSmall(r, acc, bins, small, bin, k, lens, cap),
         NEW U, NEW S0, MediumInv(bins, small, U, S0, lens, cap),
         NEW A, NextBin(bin, A, U, S0, I, lens, cap)
  PROVE  MediumInv(r.bins, r.small, U \cup A, S0, lens, cap)
<1>0. /\ Lists(bin, A) /\ bin # <<>> /\ Load(bin, lens) <= cap
      /\ A \in SUBSET I /\ U \in SUBSET I /\ S0 \in SUBSET I
      /\ A \cap U = {} /\ A \cap S0 = {} /\ U \cap S0 = {}
  BY Zenon DEF NextBin
<1>1. PICK M \in SUBSET S0 : Lists(small, M) /\ Packs(bins, U \cup (S0 \ M), lens, cap)
  BY DEF MediumInv
<1> DEFINE D == U \cup (S0 \ M)
           t == Tail(small)
           b2 == Append(Append(bin, Head(small)), t[k])
<1>2. Packs(bins, D, lens, cap) /\ D \cap A = {} /\ D \in SUBSET I
  BY <1>0, <1>1
<1>3. /\ r.bins = (IF k = 0 THEN <<bin>> \o bins ELSE <<b2>> \o bins)
      /\ r.small = (IF k = 0 THEN small ELSE RemoveAt(t, k))
      /\ k # 0 => /\ small # <<>> /\ k \in 1..Len(t)
                  /\ (Load(bin, lens) + lens[Head(small)]) + lens[t[k]] <= cap
  BY DEF AddedSmall
<1>4. CASE k = 0
  <2>1. r.bins = <<bin>> \o bins /\ r.small = small
    BY <1>3, <1>4
  <2>2. (U \cup A) \cup (S0 \ M) = D \cup A
    OBVIOUS
  <2> HIDE DEF D
  <2>3. Packs(r.bins, D \cup A, lens, cap)
    BY <1>0, <1>2, <2>1, PacksFirst
  <2> QED BY <1>1, <2>1, <2>2, <2>3 DEF MediumInv
<1>5. CASE k # 0
  <2> DEFINE x == Head(small)
             y == t[k]
             b1 == Append(bin, x)
             b == Append(b1, y)
             M1 == M \ {x}
             M2 == M1 \ {y}
  <2>1. /\ r.bins = <<b>> \o bins /\ r.small = RemoveAt(t, k) /\ small # <<>> /\ k \in 1..Len(t)
        /\ (Load(bin, lens) + lens[x]) + lens[y] <= cap
    BY <1>3, <1>5
  <2>2. x \in M /\ Lists(t, M1)
    BY <1>1, <2>1, ListsTail
  <2> HIDE DEF t
  <2>3. y \in M1 /\ Lists(r.small, M2)
    <3> HIDE DEF M1
    <3> QED BY <2>1, <2>2, ListsRemoved
  <2>4. /\ x \in I /\ y \in I /\ x # y /\ x \notin A /\ y \notin A
        /\ D \cap ((A \cup {x}) \cup {y}) = {}
        /\ (U \cup A) \cup (S0 \ M2) = D \cup ((A \cup {x}) \cup {y}) /\ M2 \in SUBSET S0
    BY <1>0, <2>2, <2>3
  <2> HIDE DEF x, y, M1, M2, D
  <2>5. lens[x] \in Nat /\ lens[y] \in Nat /\ Load(bin, lens) \in Nat
    <3>1. bin \in Seq(I)
      <4>1. bin \in Seq(A)
        BY <1>0 DEF Lists
      <4> QED BY <1>0, <4>1
    <3>2. Load(bin, lens) \in Nat
      BY <3>1, LoadIsTotal
    <3> QED BY <2>4, <3>2 DEF Weighs
  <2>6. Load(b1, lens) = Load(bin, lens) + lens[x] /\ b1 \in Seq(I)
    <3>1. bin \in Seq(I)
      <4>1. bin \in Seq(A)
        BY <1>0 DEF Lists
      <4> QED BY <1>0, <4>1
    <3> QED BY <2>4, <3>1, LoadOfAppend
  <2>7. Lists(b1, A \cup {x})
    <3>1. Load(bin, lens) + lens[x] <= cap
      BY <2>1, <2>5
    <3> QED BY <1>0, <2>4, <3>1, OneMoreInBin
  <2>8. Load(b1, lens) + lens[y] <= cap /\ A \cup {x} \in SUBSET I /\ y \notin A \cup {x}
    BY <1>0, <2>1, <2>4, <2>6
  <2> HIDE DEF b1
  <2>9. Lists(b, (A \cup {x}) \cup {y}) /\ b # <<>> /\ Load(b, lens) <= cap
    <3> DEFINE A1 == A \cup {x}
    <3>1. Lists(b1, A1) /\ A1 \in SUBSET I /\ y \notin A1 /\ y \in I
      BY <2>4, <2>7, <2>8
    <3>2. Load(b1, lens) + lens[y] <= cap
      BY <2>8
    <3> HIDE DEF A1
    <3>3. Lists(b, A1 \cup {y}) /\ b # <<>> /\ Load(b, lens) <= cap
      BY <3>1, <3>2, OneMoreInBin
    <3> QED BY <3>3 DEF A1
  <2> HIDE DEF b
  <2> DEFINE A2 == (A \cup {x}) \cup {y}
  <2>10. Lists(b, A2) /\ D \cap A2 = {} /\ (U \cup A) \cup (S0 \ M2) = D \cup A2
    BY <2>4, <2>9
  <2> HIDE DEF A2
  <2>11. Packs(r.bins, D \cup A2, lens, cap)
    BY <1>2, <2>1, <2>9, <2>10, PacksFirst
  <2>12. Packs(r.bins, (U \cup A) \cup (S0 \ M2), lens, cap)
    BY <2>10, <2>11
  <2> QED BY <2>3, <2>4, <2>12 DEF MediumInv
<1> QED BY <1>4, <1>5

\* Phase 3 keeps every sequence.
LEMMA AddSmallPhase ==
  ASSUME NEW lens, NEW cap \in Int, NEW I, Weighs(lens, I), NEW start \in Sorted4(I), Phase(start, I, lens, cap)
  PROVE  /\ AddSmall(start, lens, cap) \in Sorted4(I)
         /\ Phase(AddSmall(start, lens, cap), I, lens, cap)
<1> DEFINE s == Reverse(start.bins)
           n == Len(s)
           V == Sorted4(I)
           base == [start EXCEPT !.bins = <<>>]
           small == start.small
           tiny == start.tiny
           medium == start.medium
<1>1. PICK B \in SUBSET I, M0 \in SUBSET I, C \in SUBSET I, Y \in SUBSET I :
        /\ Packs(start.bins, B, lens, cap) /\ Packs(s, B, lens, cap)
        /\ Lists(small, M0) /\ Lists(medium, C) /\ Lists(tiny, Y)
        /\ B \cup M0 \cup C \cup Y = I
        /\ B \cap M0 = {} /\ B \cap C = {} /\ B \cap Y = {}
        /\ M0 \cap C = {} /\ M0 \cap Y = {} /\ C \cap Y = {}
  BY PacksReversed DEF Phase
<1>2. PICK A : DealsAs(s, A, B)
  BY <1>1 DEF Packs, Deals
<1>3. Gathers(s, A, B, n)
  BY <1>2, GatheredBinByBin
<1>4. /\ n \in Nat /\ UpTo(A, 0) = {} /\ UpTo(A, n) = B
      /\ \A k \in 1..n : /\ UpTo(A, k) = UpTo(A, k - 1) \cup A[k] /\ Lists(s[k], A[k])
                         /\ A[k] \cap UpTo(A, k - 1) = {} /\ A[k] \subseteq B
      /\ \A k \in 0..n : UpTo(A, k) \subseteq B
  BY <1>3, Zenon DEF Gathers
<1>50. s \in Seq(Seq(I))
  <2> HIDE DEF s
  <2>1. s \in Seq(Seq(B))
    BY <1>1, PacksSeq
  <2> QED BY <2>1
<1>5. s \in Seq(Seq(I)) /\ medium \in Seq(I) /\ small \in Seq(I) /\ tiny \in Seq(I)
      /\ base = [bins |-> <<>>, medium |-> medium, small |-> small, tiny |-> tiny]
  BY <1>50, Sorted4Fields
<1>6. DOMAIN s = 1..n /\ base \in V /\ \A k \in 1..n : s[k] \in Seq(I)
  <2>1. <<>> \in Seq(Seq(I))
    OBVIOUS
  <2> HIDE DEF s, medium, small, tiny, base
  <2> QED BY <1>5, <2>1 DEF Sorted4
<1>7. \A a \in V : \A k \in 1..n : WithSmall(a, s[k], lens, cap) \in V
  <2>1. ASSUME NEW a \in V, NEW k \in 1..n PROVE WithSmall(a, s[k], lens, cap) \in V
    <3>1. s[k] \in Seq(I)
      BY <1>6
    <3> HIDE DEF s
    <3> QED BY <3>1, WithSmallType
  <2> QED BY <2>1
<1>60. base = [start EXCEPT !.bins = <<>>] /\ s = Reverse(start.bins)
  OBVIOUS
<1>61. base.bins = <<>> /\ base.medium = medium /\ base.small = small /\ base.tiny = tiny
  BY <1>5
<1> HIDE DEF V, s, base, n, small, tiny, medium
<1>8. AddSmallStepsIn(V, n, base, s, start, lens, cap)
  BY ONLY <1>4, <1>6, <1>60, <1>7, AddSmallSteps
<1>9. PICK st \in [0..n -> V] :
        /\ st[0] = base /\ AddSmall(start, lens, cap) = st[n]
        /\ \A k \in 1..n : st[k] = WithSmall(st[k - 1], s[k], lens, cap)
  BY <1>8, Zenon DEF AddSmallStepsIn
<1> DEFINE T == {k \in 0..n : /\ MediumInv(st[k].bins, st[k].small, UpTo(A, k), M0, lens, cap)
                              /\ st[k].medium = medium /\ st[k].tiny = tiny}
<1>10. 0 \in T
  <2> DEFINE e == <<>>
  <2>1. Packs(e, {} \cup (M0 \ M0), lens, cap)
    <3>1. {} \cup (M0 \ M0) = {}
      OBVIOUS
    <3> QED BY <3>1, PacksNone
  <2>2. MediumInv(e, small, {}, M0, lens, cap)
    <3> HIDE DEF e
    <3> QED BY <1>1, <2>1 DEF MediumInv
  <2>3. st[0].bins = e /\ st[0].small = small /\ st[0].medium = medium /\ st[0].tiny = tiny
    BY <1>61, <1>9
  <2> HIDE DEF e
  <2>4. MediumInv(st[0].bins, st[0].small, UpTo(A, 0), M0, lens, cap)
    BY <1>4, <2>2, <2>3
  <2> QED BY <1>4, <2>3, <2>4
<1>11. ASSUME NEW k \in 0..(n - 1), k \in T PROVE k + 1 \in T
  <2>1. k + 1 \in 1..n /\ k + 1 \in 0..n /\ (k + 1) - 1 = k /\ k \in 0..n
    BY <1>4
  <2> DEFINE a == st[k]
             r == st[k + 1]
             b == s[k + 1]
             U == UpTo(A, k)
             W == A[k + 1]
  <2>2. r = WithSmall(a, b, lens, cap) /\ a \in V /\ b \in Seq(I)
    BY <1>6, <1>9, <2>1
  <2>3. UpTo(A, k + 1) = U \cup W /\ Lists(b, W) /\ W \cap U = {} /\ W \subseteq B /\ U \subseteq B
    BY <1>4, <2>1
  <2>4. MediumInv(a.bins, a.small, U, M0, lens, cap) /\ a.medium = medium /\ a.tiny = tiny
    BY <1>11
  <2>5. b # <<>> /\ Load(b, lens) <= cap
    <3>1. k + 1 \in 1..Len(s)
      BY <2>1 DEF n
    <3> QED BY <1>1, <3>1 DEF Packs
  <2> HIDE DEF a, r, b, U, W
  <2>6. AddsSmall(r, a, a.bins, a.small, b, lens, cap)
    BY <2>2, SmallFound DEF V
  <2>7. r.medium = medium /\ r.tiny = tiny
    BY <2>2, <2>4, WithSmallType DEF V
  <2>8. PICK m : AddedSmall(r, a, a.bins, a.small, b, m, lens, cap)
    BY <2>6, Zenon DEF AddsSmall
  <2> DEFINE abins == a.bins
             asmall == a.small
  <2>9. U \in SUBSET I /\ U \cap M0 = {} /\ W \in SUBSET I /\ W \cap M0 = {}
    BY <1>1, <2>3
  <2>10. AddedSmall(r, a, abins, asmall, b, m, lens, cap) /\ MediumInv(abins, asmall, U, M0, lens, cap)
    BY <2>4, <2>8
  <2> HIDE DEF abins, asmall
  <2>110. NextBin(b, W, U, M0, I, lens, cap)
    BY <2>3, <2>5, <2>9 DEF NextBin
  <2>11. MediumInv(r.bins, r.small, U \cup W, M0, lens, cap)
    BY ONLY Weighs(lens, I), cap \in Int, <2>10, <2>110, WithSmallKeeps
  <2>12. MediumInv(r.bins, r.small, UpTo(A, k + 1), M0, lens, cap)
    BY <2>3, <2>11
  <2> QED BY <2>1, <2>7, <2>12 DEF r
<1>12. n \in T
  <2>1. \A k \in 0..n : k \in T
    <3> HIDE DEF T
    <3> QED BY <1>4, <1>10, <1>11, InductionTo
  <2> QED BY <1>4, <2>1
<1> DEFINE acc == st[n]
<1>13. acc \in V /\ MediumInv(acc.bins, acc.small, B, M0, lens, cap) /\ acc.medium = medium /\ acc.tiny = tiny
  BY <1>4, <1>12
<1> HIDE DEF acc
<1>14. PICK M \in SUBSET M0 : Lists(acc.small, M) /\ Packs(acc.bins, B \cup (M0 \ M), lens, cap)
  BY <1>13, Zenon DEF MediumInv
<1> DEFINE D == B \cup (M0 \ M)
<1>15. /\ D \in SUBSET I /\ M \in SUBSET I /\ D \cup M \cup C \cup Y = I
       /\ D \cap M = {} /\ D \cap C = {} /\ D \cap Y = {}
       /\ M \cap C = {} /\ M \cap Y = {}
  BY <1>1
<1>16. Packs(acc.bins, D, lens, cap)
  BY <1>14
<1> HIDE DEF D
<1>17. Phase(acc, I, lens, cap)
  BY <1>1, <1>13, <1>14, <1>15, <1>16 DEF Phase
<1> QED BY <1>9, <1>13, <1>17 DEF acc, V

-----------------------------------------------------------------------------
(* Phase 4 *)

\* What phases 4 and 5 work on, and how the sequences are in it.
Left2(I) == [bins : Seq(Seq(I)), rest : Seq(I)]
LeftPhase(acc, I, lens, cap) ==
  \E B \in SUBSET I : Packs(acc.bins, B, lens, cap) /\ Lists(acc.rest, I \ B)

\* The rest, from the longest on.
LEMMA LeftoversPhase ==
  ASSUME NEW lens, NEW cap, NEW I, Weighs(lens, I), NEW start \in Sorted4(I), Phase(start, I, lens, cap)
  PROVE  Leftovers(start, lens) \in Left2(I) /\ LeftPhase(Leftovers(start, lens), I, lens, cap)
<1> DEFINE items == (start.medium \o start.small) \o start.tiny
           n == Len(items)
           sizes == [k \in 1..n |-> lens[items[k]]]
           order == LongestFirst(1..n, sizes)
           rest == [k \in 1..Len(order) |-> items[order[k]]]
           bins == start.bins
           r == Leftovers(start, lens)
<1>1. PICK B \in SUBSET I, M \in SUBSET I, C \in SUBSET I, Y \in SUBSET I :
        /\ Packs(bins, B, lens, cap)
        /\ Lists(start.medium, M) /\ Lists(start.small, C) /\ Lists(start.tiny, Y)
        /\ B \cup M \cup C \cup Y = I
        /\ B \cap M = {} /\ B \cap C = {} /\ B \cap Y = {}
        /\ M \cap C = {} /\ M \cap Y = {} /\ C \cap Y = {}
  BY DEF Phase
<1> DEFINE R == (M \cup C) \cup Y
<1>2. Lists(items, R)
  <2> DEFINE mc == start.medium \o start.small
             MC == M \cup C
  <2>1. Lists(mc, MC)
    BY <1>1, ListsConcat
  <2>2. MC \cap Y = {} /\ Lists(start.tiny, Y)
    BY <1>1
  <2> HIDE DEF mc, MC
  <2>3. Lists(mc \o start.tiny, MC \cup Y)
    BY <2>1, <2>2, ListsConcat
  <2> QED BY <2>3 DEF mc, MC
<1>3. R = I \ B /\ R \in SUBSET I
  BY <1>1
<1>4. r = [bins |-> bins, rest |-> rest]
  BY DEF Leftovers
<1> HIDE DEF items, R, r
<1>5. n \in Nat /\ \A k \in 1..n : items[k] \in R
  BY <1>2 DEF Lists
<1>6. 1..n \in SUBSET Int /\ IsFiniteSet(1..n) /\ Weighs(sizes, 1..n)
  <2>1. 1 \in Int /\ n \in Int
    BY <1>5
  <2>2. IsFiniteSet(1..n)
    BY ONLY <2>1, FS_Interval
  <2>3. \A k \in 1..n : sizes[k] \in Nat
    <3>1. \A k \in 1..n : items[k] \in I
      BY <1>3, <1>5
    <3> QED BY <3>1 DEF Weighs
  <2> QED BY <1>5, <2>2, <2>3 DEF Weighs
<1> HIDE DEF sizes
<1>7. Lists(order, 1..n)
  <2> DEFINE total == 1..n
  <2>1. total \in SUBSET Int /\ IsFiniteSet(total) /\ Weighs(sizes, total)
    BY <1>6
  <2> HIDE DEF total
  <2>2. Lists(LongestFirst(total, sizes), total)
    BY <2>1, LongestFirstLists
  <2> QED BY <2>2 DEF total
<1> HIDE DEF order
<1>8. Lists(rest, R)
  <2>1. rest = [k \in 1..Len(order) |-> items[order[k]]]
    OBVIOUS
  <2> HIDE DEF rest
  <2> QED BY <1>2, <1>7, <2>1, ListsThrough
<1> HIDE DEF rest, bins
<1>9. r.bins = bins /\ r.rest = rest
  BY <1>4
<1>10. LeftPhase(r, I, lens, cap)
  BY <1>1, <1>3, <1>8, <1>9 DEF LeftPhase
<1>11. r \in Left2(I)
  <2>1. bins \in Seq(Seq(I))
    BY Sorted4Fields DEF bins
  <2>2. rest \in Seq(I)
    <3>1. rest \in Seq(R)
      BY <1>8 DEF Lists
    <3> QED BY <1>3, <3>1
  <2> QED BY <1>4, <2>1, <2>2 DEF Left2
<1> QED BY <1>10, <1>11 DEF r

\* A bin being filled.
FillingType(I) == [bin : Seq(I), rest : Seq(I)]

\* The bin holds what it held and what it took of the sequences passed.
Filling(acc, A, U, lens, cap) ==
  \E Y \in SUBSET U : /\ Lists(acc.rest, Y) /\ Lists(acc.bin, A \cup (U \ Y))
                      /\ acc.bin # <<>> /\ Load(acc.bin, lens) <= cap

\* One sequence.
LEMMA TakeIfFitsType ==
  ASSUME NEW I, NEW acc \in FillingType(I), NEW i \in I, NEW lens, NEW cap
  PROVE  TakeIfFits(acc, i, lens, cap) \in FillingType(I)
<1> DEFINE b == acc.bin
           s == acc.rest
           b2 == Append(b, i)
           s2 == Append(s, i)
           r == TakeIfFits(acc, i, lens, cap)
<1>1. acc = [bin |-> b, rest |-> s] /\ b \in Seq(I) /\ s \in Seq(I) /\ b2 \in Seq(I) /\ s2 \in Seq(I)
  BY DEF FillingType
<1>2. r = IF Fits(i, b, lens, cap) THEN [acc EXCEPT !.bin = b2] ELSE [acc EXCEPT !.rest = s2]
  BY DEF TakeIfFits
<1> HIDE DEF b, s, b2, s2
<1>3. r = [bin |-> b2, rest |-> s] \/ r = [bin |-> b, rest |-> s2]
  <2> HIDE DEF r
  <2> QED BY <1>1, <1>2
<1> HIDE DEF r
<1>4. r \in FillingType(I)
  BY <1>1, <1>3 DEF FillingType
<1> QED BY <1>4 DEF r

\* One sequence, kept track of.
LEMMA TakeIfFitsKeeps ==
  ASSUME NEW lens, NEW cap, NEW I, Weighs(lens, I), NEW acc \in FillingType(I),
         NEW A \in SUBSET I, NEW U \in SUBSET I, A \cap U = {}, Filling(acc, A, U, lens, cap),
         NEW i \in I, i \notin A, i \notin U
  PROVE  Filling(TakeIfFits(acc, i, lens, cap), A, U \cup {i}, lens, cap)
<1> DEFINE b == acc.bin
           s == acc.rest
           b2 == Append(b, i)
           s2 == Append(s, i)
           r == TakeIfFits(acc, i, lens, cap)
           W == U \cup {i}
<1>1. acc = [bin |-> b, rest |-> s]
  BY DEF FillingType
<1>2. r = IF Fits(i, b, lens, cap) THEN [acc EXCEPT !.bin = b2] ELSE [acc EXCEPT !.rest = s2]
  BY DEF TakeIfFits
<1>3. PICK Y \in SUBSET U : /\ Lists(s, Y) /\ Lists(b, A \cup (U \ Y))
                            /\ b # <<>> /\ Load(b, lens) <= cap
  BY DEF Filling
<1> HIDE DEF b, s, b2, s2, r
<1> DEFINE D == A \cup (U \ Y)
<1>4. CASE Fits(i, b, lens, cap)
  <2>1. r.bin = b2 /\ r.rest = s
    BY <1>1, <1>2, <1>4
  <2>2. D \in SUBSET I /\ i \notin D /\ Lists(b, D) /\ Load(b, lens) + lens[i] <= cap
        /\ D \cup {i} = A \cup (W \ Y) /\ Y \in SUBSET W
    BY <1>3, <1>4 DEF Fits
  <2> HIDE DEF D, W
  <2>3. Lists(b2, D \cup {i}) /\ b2 # <<>> /\ Load(b2, lens) <= cap
    BY <2>2, OneMoreInBin DEF b2
  <2>4. Filling(r, A, W, lens, cap)
    BY <1>3, <2>1, <2>2, <2>3 DEF Filling
  <2> QED BY <2>4 DEF r, W
<1>5. CASE ~ Fits(i, b, lens, cap)
  <2> DEFINE Z == Y \cup {i}
  <2>1. r.bin = b /\ r.rest = s2
    BY <1>1, <1>2, <1>5
  <2>2. i \notin Y /\ A \cup (W \ Z) = A \cup (U \ Y) /\ Z \in SUBSET W
    BY <1>3
  <2>3. Lists(s2, Z)
    BY <1>3, <2>2, ListsAppend DEF s2
  <2> HIDE DEF Z, W
  <2>4. Lists(b, A \cup (W \ Z))
    BY <1>3, <2>2
  <2>5. Filling(r, A, W, lens, cap)
    BY <1>3, <2>1, <2>2, <2>3, <2>4 DEF Filling
  <2> QED BY <2>5 DEF r, W
<1> QED BY <1>4, <1>5

\* The filling of a bin gives lists of indices.
FilledTrace(st, bin, rest, lens, cap, n, I) ==
  /\ n \in Nat /\ st \in [0..n -> FillingType(I)]
  /\ st[0] = [bin |-> bin, rest |-> <<>>] /\ Filled(bin, rest, lens, cap) = st[n]
  /\ \A k \in 1..n : st[k] = TakeIfFits(st[k - 1], rest[k], lens, cap)

\* Whatever the bin and the rest are, the filling keeps to their indices.
LEMMA FilledType ==
  ASSUME NEW I, NEW bin \in Seq(I), NEW rest \in Seq(I), NEW lens, NEW cap
  PROVE  /\ Filled(bin, rest, lens, cap) \in FillingType(I)
         /\ \E st : FilledTrace(st, bin, rest, lens, cap, Len(rest), I)
<1> DEFINE n == Len(rest)
           V == FillingType(I)
           base == [bin |-> bin, rest |-> <<>>]
           e == <<>>
<1>1. n \in Nat /\ DOMAIN rest = 1..n /\ (\A k \in 1..n : rest[k] \in I) /\ base \in V
  <2>1. e \in Seq(I)
    OBVIOUS
  <2>2. base \in V
    <3> HIDE DEF e
    <3>1. base = [bin |-> bin, rest |-> e]
      BY DEF e
    <3> QED BY <2>1, <3>1 DEF FillingType
  <2> QED BY <2>2
<1>2. \A a \in V : \A k \in 1..n : TakeIfFits(a, rest[k], lens, cap) \in V
  <2> HIDE DEF n, V
  <2>1. ASSUME NEW a \in V, NEW k \in 1..n PROVE TakeIfFits(a, rest[k], lens, cap) \in V
    <3>1. rest[k] \in I
      BY <1>1
    <3> QED BY <3>1, TakeIfFitsType DEF V
  <2> QED BY <2>1
<1>3. base = [bin |-> bin, rest |-> <<>>]
  OBVIOUS
<1> HIDE DEF n, V, base
<1>4. FilledStepsIn(V, n, base, rest, bin, rest, lens, cap)
  BY ONLY <1>1, <1>2, <1>3, FilledSteps
<1>5. PICK st \in [0..n -> V] :
        /\ st[0] = base /\ Filled(bin, rest, lens, cap) = st[n]
        /\ \A k \in 1..n : st[k] = TakeIfFits(st[k - 1], rest[k], lens, cap)
  BY <1>4, Zenon DEF FilledStepsIn
<1>6. st[n] \in V
  BY <1>1
<1>7. FilledTrace(st, bin, rest, lens, cap, n, I)
  BY <1>1, <1>5, Zenon DEF FilledTrace, V, base
<1> QED BY <1>5, <1>6, <1>7 DEF V, n

\* What a filled bin and the new rest hold.
LEMMA FilledKeeps ==
  ASSUME NEW lens, NEW cap, NEW I, Weighs(lens, I), NEW bin, NEW A \in SUBSET I, Lists(bin, A),
         bin # <<>>, Load(bin, lens) <= cap, NEW rest, NEW R \in SUBSET I, Lists(rest, R), A \cap R = {}
  PROVE  Filling(Filled(bin, rest, lens, cap), A, R, lens, cap)
<1> DEFINE n == Len(rest)
<1>1. Takes(rest, R, n)
  BY TakenOneByOne
<1>2. /\ n \in Nat /\ Taken(rest, 0) = {} /\ Taken(rest, n) = R
      /\ \A k \in 1..n : /\ Taken(rest, k) = Taken(rest, k - 1) \cup {rest[k]}
                         /\ rest[k] \in R /\ rest[k] \notin Taken(rest, k - 1)
      /\ \A k \in 0..n : Taken(rest, k) \subseteq R
  BY <1>1, Zenon DEF Takes
<1>3. bin \in Seq(I) /\ rest \in Seq(I)
  <2>1. bin \in Seq(A) /\ rest \in Seq(R)
    BY DEF Lists
  <2> QED BY <2>1
<1>4. PICK st : FilledTrace(st, bin, rest, lens, cap, n, I)
  BY <1>3, FilledType
<1>5. /\ st \in [0..n -> FillingType(I)]
      /\ st[0] = [bin |-> bin, rest |-> <<>>] /\ Filled(bin, rest, lens, cap) = st[n]
      /\ \A k \in 1..n : st[k] = TakeIfFits(st[k - 1], rest[k], lens, cap)
  BY <1>4, Zenon DEF FilledTrace
<1> HIDE DEF n
<1> DEFINE T == {k \in 0..n : Filling(st[k], A, Taken(rest, k), lens, cap)}
<1>6. 0 \in T
  <2>1. st[0].bin = bin /\ st[0].rest = <<>>
    BY <1>5
  <2>2. A \cup ({} \ {}) = A
    OBVIOUS
  <2>3. Filling(st[0], A, {}, lens, cap)
    BY <2>1, <2>2, ListsNone DEF Filling
  <2>4. Filling(st[0], A, Taken(rest, 0), lens, cap)
    BY <1>2, <2>3, Zenon
  <2> QED BY <1>2, <2>4
<1>7. ASSUME NEW k \in 0..(n - 1), k \in T PROVE k + 1 \in T
  <2>1. k + 1 \in 1..n /\ k + 1 \in 0..n /\ (k + 1) - 1 = k /\ k \in 0..n
    BY <1>2
  <2> DEFINE a == st[k]
             i == rest[k + 1]
             U == Taken(rest, k)
  <2>2. st[k + 1] = TakeIfFits(a, i, lens, cap) /\ a \in FillingType(I)
    BY <1>5, <2>1
  <2>3. Taken(rest, k + 1) = U \cup {i} /\ i \in R /\ i \notin U /\ U \subseteq R
    BY <1>2, <2>1
  <2>4. Filling(a, A, U, lens, cap)
    BY <1>7
  <2> HIDE DEF a, i, U
  <2>5. U \in SUBSET I /\ A \cap U = {} /\ i \in I /\ i \notin A
    BY <2>3
  <2>6. Filling(st[k + 1], A, U \cup {i}, lens, cap)
    BY <2>2, <2>3, <2>4, <2>5, TakeIfFitsKeeps
  <2> QED BY <2>1, <2>3, <2>6
<1>8. n \in T
  <2>1. \A k \in 0..n : k \in T
    <3> HIDE DEF T
    <3> QED BY <1>2, <1>6, <1>7, InductionTo
  <2> QED BY <1>2, <2>1
<1> QED BY <1>2, <1>5, <1>8

\* The next bin filled.
LEMMA FillNextType ==
  ASSUME NEW I, NEW acc \in Left2(I), NEW bin \in Seq(I), NEW lens, NEW cap
  PROVE  FillNext(acc, bin, lens, cap) \in Left2(I)
<1> DEFINE bins == acc.bins
           rest == acc.rest
           done == Filled(bin, rest, lens, cap)
           b == done.bin
           y == done.rest
           r == FillNext(acc, bin, lens, cap)
<1>1. bins \in Seq(Seq(I)) /\ rest \in Seq(I)
  BY DEF Left2
<1>2. r = [bins |-> Append(bins, b), rest |-> y]
  BY DEF FillNext
<1> HIDE DEF bins, rest, r
<1>3. b \in Seq(I) /\ y \in Seq(I)
  <2>1. done \in FillingType(I)
    BY <1>1, FilledType
  <2> HIDE DEF done
  <2> QED BY <2>1 DEF FillingType
<1> HIDE DEF b, y
<1>4. Append(bins, b) \in Seq(Seq(I))
  BY <1>1, <1>3
<1>5. r \in Left2(I)
  BY <1>2, <1>3, <1>4 DEF Left2
<1> QED BY <1>5 DEF r

\* What it holds.
LEMMA FillNextKeeps ==
  ASSUME NEW lens, NEW cap, NEW I, Weighs(lens, I), NEW bins, NEW rest, NEW acc,
         acc.bins = bins, acc.rest = rest, NEW bin, NEW r, r = FillNext(acc, bin, lens, cap),
         NEW U, NEW R0, MediumInv(bins, rest, U, R0, lens, cap),
         NEW A, NextBin(bin, A, U, R0, I, lens, cap)
  PROVE  MediumInv(r.bins, r.rest, U \cup A, R0, lens, cap)
<1>0. /\ Lists(bin, A) /\ bin # <<>> /\ Load(bin, lens) <= cap
      /\ A \in SUBSET I /\ U \in SUBSET I /\ R0 \in SUBSET I
      /\ A \cap U = {} /\ A \cap R0 = {} /\ U \cap R0 = {}
  BY Zenon DEF NextBin
<1>1. PICK R \in SUBSET R0 : Lists(rest, R) /\ Packs(bins, U \cup (R0 \ R), lens, cap)
  BY DEF MediumInv
<1> DEFINE done == Filled(bin, rest, lens, cap)
           b == done.bin
           y == done.rest
           D == U \cup (R0 \ R)
<1>2. r.bins = Append(bins, b) /\ r.rest = y
  BY DEF FillNext
<1>3. Filling(done, A, R, lens, cap)
  <2>1. R \in SUBSET I /\ A \cap R = {}
    BY <1>0, <1>1
  <2> QED BY <1>0, <1>1, <2>1, FilledKeeps
<1> HIDE DEF done
<1>4. PICK Y \in SUBSET R : /\ Lists(y, Y) /\ Lists(b, A \cup (R \ Y))
                            /\ b # <<>> /\ Load(b, lens) <= cap
  BY <1>3, Zenon DEF Filling
<1> DEFINE E == A \cup (R \ Y)
<1>5. Packs(bins, D, lens, cap) /\ Lists(b, E) /\ D \cap E = {}
  BY <1>0, <1>1, <1>4
<1>6. (U \cup A) \cup (R0 \ Y) = D \cup E /\ Y \in SUBSET R0
  BY <1>1, <1>4
<1> HIDE DEF b, y, D, E
<1>7. Packs(Append(bins, b), D \cup E, lens, cap)
  BY <1>4, <1>5, PacksAppend
<1>8. Packs(r.bins, (U \cup A) \cup (R0 \ Y), lens, cap) /\ Lists(r.rest, Y)
  BY <1>2, <1>4, <1>6, <1>7
<1> QED BY <1>6, <1>8 DEF MediumInv

\* Phase 4 keeps every sequence.
LEMMA FillGreedilyPhase ==
  ASSUME NEW lens, NEW cap, NEW I, Weighs(lens, I), NEW start \in Left2(I), LeftPhase(start, I, lens, cap)
  PROVE  /\ FillGreedily(start, lens, cap) \in Left2(I)
         /\ LeftPhase(FillGreedily(start, lens, cap), I, lens, cap)
<1> DEFINE s == start.bins
           n == Len(s)
           V == Left2(I)
           base == [start EXCEPT !.bins = <<>>]
           rest == start.rest
<1>1. PICK B \in SUBSET I : Packs(s, B, lens, cap) /\ Lists(rest, I \ B)
  BY DEF LeftPhase
<1> DEFINE R0 == I \ B
<1>2. PICK A : DealsAs(s, A, B)
  BY <1>1 DEF Packs, Deals
<1>3. Gathers(s, A, B, n)
  BY <1>2, GatheredBinByBin
<1>4. /\ n \in Nat /\ UpTo(A, 0) = {} /\ UpTo(A, n) = B
      /\ \A k \in 1..n : /\ UpTo(A, k) = UpTo(A, k - 1) \cup A[k] /\ Lists(s[k], A[k])
                         /\ A[k] \cap UpTo(A, k - 1) = {} /\ A[k] \subseteq B
      /\ \A k \in 0..n : UpTo(A, k) \subseteq B
  BY <1>3, Zenon DEF Gathers
<1>5. s \in Seq(Seq(I)) /\ rest \in Seq(I) /\ base = [bins |-> <<>>, rest |-> rest]
  BY DEF Left2
<1>6. DOMAIN s = 1..n /\ base \in V /\ \A k \in 1..n : s[k] \in Seq(I)
  <2>1. <<>> \in Seq(Seq(I))
    OBVIOUS
  <2> HIDE DEF s, rest, base
  <2> QED BY <1>5, <2>1 DEF Left2
<1>7. \A a \in V : \A k \in 1..n : FillNext(a, s[k], lens, cap) \in V
  <2>1. ASSUME NEW a \in V, NEW k \in 1..n PROVE FillNext(a, s[k], lens, cap) \in V
    <3>1. s[k] \in Seq(I)
      BY <1>6
    <3> HIDE DEF s
    <3> QED BY <3>1, FillNextType
  <2> QED BY <2>1
<1>60. base = [start EXCEPT !.bins = <<>>] /\ s = start.bins
  OBVIOUS
<1>61. base.bins = <<>> /\ base.rest = rest
  BY <1>5
<1> HIDE DEF V, s, base, n, rest, R0
<1>8. FillGreedilyStepsIn(V, n, base, s, start, lens, cap)
  BY ONLY <1>4, <1>6, <1>60, <1>7, FillGreedilySteps
<1>9. PICK st \in [0..n -> V] :
        /\ st[0] = base /\ FillGreedily(start, lens, cap) = st[n]
        /\ \A k \in 1..n : st[k] = FillNext(st[k - 1], s[k], lens, cap)
  BY <1>8, Zenon DEF FillGreedilyStepsIn
<1> DEFINE T == {k \in 0..n : MediumInv(st[k].bins, st[k].rest, UpTo(A, k), R0, lens, cap)}
<1>10. 0 \in T
  <2> DEFINE e == <<>>
  <2>1. Packs(e, {} \cup (R0 \ R0), lens, cap)
    <3>1. {} \cup (R0 \ R0) = {}
      OBVIOUS
    <3> QED BY <3>1, PacksNone
  <2>2. MediumInv(e, rest, {}, R0, lens, cap)
    <3> HIDE DEF e
    <3> QED BY <1>1, <2>1 DEF MediumInv, R0
  <2>3. st[0].bins = e /\ st[0].rest = rest
    BY <1>61, <1>9
  <2> HIDE DEF e
  <2>4. MediumInv(st[0].bins, st[0].rest, UpTo(A, 0), R0, lens, cap)
    BY <1>4, <2>2, <2>3
  <2> QED BY <1>4, <2>4
<1>11. ASSUME NEW k \in 0..(n - 1), k \in T PROVE k + 1 \in T
  <2>1. k + 1 \in 1..n /\ k + 1 \in 0..n /\ (k + 1) - 1 = k /\ k \in 0..n
    BY <1>4
  <2> DEFINE a == st[k]
             r == st[k + 1]
             b == s[k + 1]
             U == UpTo(A, k)
             W == A[k + 1]
  <2>2. r = FillNext(a, b, lens, cap) /\ a \in V /\ b \in Seq(I)
    BY <1>6, <1>9, <2>1
  <2>3. UpTo(A, k + 1) = U \cup W /\ Lists(b, W) /\ W \cap U = {} /\ W \subseteq B /\ U \subseteq B
    BY <1>4, <2>1
  <2>4. MediumInv(a.bins, a.rest, U, R0, lens, cap)
    BY <1>11
  <2>5. b # <<>> /\ Load(b, lens) <= cap
    <3>1. k + 1 \in 1..Len(s)
      BY <2>1 DEF n
    <3> QED BY <1>1, <3>1 DEF Packs
  <2> HIDE DEF a, r, b, U, W
  <2> DEFINE abins == a.bins
             arest == a.rest
  <2>6. a.bins = abins /\ a.rest = arest /\ MediumInv(abins, arest, U, R0, lens, cap)
    BY <2>4
  <2>7. U \in SUBSET I /\ U \cap R0 = {} /\ W \in SUBSET I /\ W \cap R0 = {} /\ R0 \in SUBSET I
    BY <1>1, <2>3 DEF R0
  <2> HIDE DEF abins, arest
  <2>8. NextBin(b, W, U, R0, I, lens, cap)
    BY <2>3, <2>5, <2>7 DEF NextBin
  <2>9. MediumInv(r.bins, r.rest, U \cup W, R0, lens, cap)
    BY ONLY Weighs(lens, I), <2>2, <2>6, <2>8, FillNextKeeps
  <2>10. MediumInv(r.bins, r.rest, UpTo(A, k + 1), R0, lens, cap)
    BY <2>3, <2>9
  <2> QED BY <2>1, <2>10 DEF r
<1>12. n \in T
  <2>1. \A k \in 0..n : k \in T
    <3> HIDE DEF T
    <3> QED BY <1>4, <1>10, <1>11, InductionTo
  <2> QED BY <1>4, <2>1
<1> DEFINE acc == st[n]
<1>13. acc \in V /\ MediumInv(acc.bins, acc.rest, B, R0, lens, cap)
  BY <1>4, <1>12
<1> HIDE DEF acc
<1>14. PICK R \in SUBSET R0 : Lists(acc.rest, R) /\ Packs(acc.bins, B \cup (R0 \ R), lens, cap)
  BY <1>13, Zenon DEF MediumInv
<1> DEFINE D == B \cup (R0 \ R)
<1>15. D \in SUBSET I /\ R = I \ D
  BY <1>1 DEF R0
<1>16. Packs(acc.bins, D, lens, cap) /\ Lists(acc.rest, I \ D)
  BY <1>14, <1>15
<1> HIDE DEF D
<1>17. LeftPhase(acc, I, lens, cap)
  BY <1>15, <1>16 DEF LeftPhase
<1> QED BY <1>9, <1>13, <1>17 DEF acc, V

-----------------------------------------------------------------------------
(* Phase 5 *)

\* Bins in the order of their loads take another.
LEMMA InsertPlace ==
  ASSUME NEW bins, Len(bins) \in Nat, NEW bin, NEW lens
  PROVE  \E k \in 1..(Len(bins) + 1) : Insert(bins, bin, lens) = InsertAt(bins, k, bin)
<1> DEFINE n == Len(bins)
           P == {j \in 1..n : Load(bins[j], lens) <= Load(bin, lens)}
           k == SelectLastInSeq(bins, LAMBDA b : Load(b, lens) <= Load(bin, lens))
<1>1. Insert(bins, bin, lens) = InsertAt(bins, k + 1, bin)
  BY DEF Insert
<1>2. k = IF P # {} THEN Max(P) ELSE 0
  BY DEF SelectLastInSeq
<1> HIDE DEF k
<1>3. Finds(k, n, P)
  <2>1. n \in Nat /\ P \in SUBSET (1..n)
    OBVIOUS
  <2> HIDE DEF P
  <2> QED BY <1>2, <2>1, MinAndMaxIn
<1>4. k = 0 \/ k \in 1..n
  BY <1>3 DEF Finds
<1>5. k + 1 \in 1..(n + 1)
  BY <1>4
<1> QED BY <1>1, <1>5

\* The new bins, of which there is one from the start.
Bins1(I) == {bins \in Seq(Seq(I)) : bins # <<>>}

\* They stay so.
LEMMA InsertType ==
  ASSUME NEW I, NEW bins \in Seq(Seq(I)), NEW bin \in Seq(I), NEW lens
  PROVE  Insert(bins, bin, lens) \in Bins1(I)
<1> DEFINE V == Seq(I)
           r == Insert(bins, bin, lens)
<1>1. bins \in Seq(V) /\ bin \in V /\ Len(bins) \in Nat
  OBVIOUS
<1> HIDE DEF V, r
<1>2. PICK k \in 1..(Len(bins) + 1) : r = InsertAt(bins, k, bin)
  BY <1>1, InsertPlace DEF r
<1>3. r \in Seq(V) /\ Len(r) = Len(bins) + 1
  BY <1>1, <1>2, Inserted
<1>4. r # <<>>
  BY <1>1, <1>3
<1> QED BY <1>3, <1>4 DEF Bins1, V, r

\* A leftover put into the emptiest bin or a new one leaves bins of indices, at
\* least one.
LEMMA PlaceEmptiestType ==
  ASSUME NEW I, NEW bins \in Bins1(I), NEW i \in I, NEW lens, NEW cap
  PROVE  PlaceEmptiest(bins, i, lens, cap) \in Bins1(I)
<1>1. bins \in Seq(Seq(I)) /\ bins # <<>>
  BY DEF Bins1
<1>2. Head(bins) \in Seq(I) /\ Tail(bins) \in Seq(Seq(I))
  BY <1>1
<1>3. Append(Head(bins), i) \in Seq(I) /\ <<i>> \in Seq(I)
  BY <1>2
<1> DEFINE b == Append(Head(bins), i)
           t == Tail(bins)
           x == <<i>>
<1>4. PlaceEmptiest(bins, i, lens, cap) = IF Fits(i, Head(bins), lens, cap)
                                          THEN Insert(t, b, lens) ELSE Insert(bins, x, lens)
  BY DEF PlaceEmptiest
<1>5. b \in Seq(I) /\ t \in Seq(Seq(I)) /\ x \in Seq(I)
  BY <1>2, <1>3
<1> HIDE DEF b, t, x
<1>6. Insert(t, b, lens) \in Bins1(I) /\ Insert(bins, x, lens) \in Bins1(I)
  BY <1>1, <1>5, InsertType
<1> QED BY <1>4, <1>6

\* A bin inserted.
LEMMA InsertPacks ==
  ASSUME NEW bins, NEW S, NEW lens, NEW cap, Packs(bins, S, lens, cap),
         NEW s, NEW T, Lists(s, T), S \cap T = {}, s # <<>>, Load(s, lens) <= cap
  PROVE  Packs(Insert(bins, s, lens), S \cup T, lens, cap)
<1>1. Len(bins) \in Nat
  BY PacksSeq
<1>2. PICK k \in 1..(Len(bins) + 1) : Insert(bins, s, lens) = InsertAt(bins, k, s)
  BY <1>1, InsertPlace
<1>3. Packs(InsertAt(bins, k, s), S \cup T, lens, cap)
  BY PacksInserted
<1> QED BY <1>2, <1>3

\* One sequence more.
LEMMA PlaceEmptiestPacks ==
  ASSUME NEW lens, NEW cap, Packable(lens, cap), NEW bins, NEW S \in SUBSET (1..Len(lens)),
         bins # <<>>, Packs(bins, S, lens, cap), NEW i \in 1..Len(lens), i \notin S
  PROVE  Packs(PlaceEmptiest(bins, i, lens, cap), S \cup {i}, lens, cap)
<1> DEFINE I == 1..Len(lens)
<1>1. Weighs(lens, I) /\ lens[i] \in Nat /\ lens[i] <= cap
  <2>1. Weighs(lens, I)
    BY PackableWeighs
  <2>2. lens[i] \in Nat /\ lens[i] <= cap
    BY DEF Packable
  <2> QED BY <2>1, <2>2
<1>2. CASE Fits(i, Head(bins), lens, cap)
  <2> DEFINE h == Head(bins)
             t == Tail(bins)
             b == Append(h, i)
  <2>1. PICK T \in SUBSET S : /\ Lists(h, T) /\ Packs(t, S \ T, lens, cap)
                              /\ h # <<>> /\ Load(h, lens) <= cap
    BY PacksTail
  <2> DEFINE D == S \ T
             E == T \cup {i}
  <2>2. T \in SUBSET I /\ i \notin T /\ i \in I /\ D \cap E = {} /\ D \cup E = S \cup {i}
    OBVIOUS
  <2>3. Load(h, lens) + lens[i] <= cap
    BY <1>2 DEF Fits
  <2> HIDE DEF h, t, I
  <2>4. Lists(b, E) /\ b # <<>> /\ Load(b, lens) <= cap
    BY <1>1, <2>1, <2>2, <2>3, OneMoreInBin
  <2>5. Packs(t, D, lens, cap)
    BY <2>1
  <2> HIDE DEF b, D, E
  <2>6. Packs(Insert(t, b, lens), D \cup E, lens, cap)
    BY <2>2, <2>4, <2>5, InsertPacks
  <2> QED BY <1>2, <2>2, <2>6 DEF PlaceEmptiest, t, b, h
<1>3. CASE ~ Fits(i, Head(bins), lens, cap)
  <2> DEFINE x == <<i>>
             E == {i}
  <2>1. Lists(x, E) /\ Load(x, lens) <= cap /\ x # <<>> /\ S \cap E = {}
    BY <1>1, ListsOne, LoadOfOne
  <2> HIDE DEF x, E
  <2>2. Packs(Insert(bins, x, lens), S \cup E, lens, cap)
    BY <2>1, InsertPacks
  <2> QED BY <1>3, <2>2 DEF PlaceEmptiest, x, E
<1> QED BY <1>2, <1>3

\* The first sequence goes into the first of the new bins.
LEMMA PlaceEmptiestFirst ==
  ASSUME NEW lens, NEW cap, Packable(lens, cap), NEW i \in 1..Len(lens)
  PROVE  Packs(PlaceEmptiest(<< <<>> >>, i, lens, cap), {i}, lens, cap)
<1> DEFINE e == <<>>
           b == <<e>>
           x == <<i>>
           E == {i}
<1>1. lens[i] \in Nat /\ lens[i] <= cap
  BY DEF Packable
<1>2. Head(b) = e /\ Tail(b) = <<>> /\ Append(e, i) = x
  OBVIOUS
<1>3. Load(e, lens) = 0
  BY LoadOfNone
<1>4. Fits(i, Head(b), lens, cap)
  <2> HIDE DEF b, e
  <2> QED BY <1>1, <1>2, <1>3 DEF Fits
<1>5. PlaceEmptiest(b, i, lens, cap) = Insert(<<>>, x, lens)
  <2> HIDE DEF b, e, x
  <2> QED BY <1>2, <1>4 DEF PlaceEmptiest
<1>6. Lists(x, E) /\ Load(x, lens) <= cap /\ x # <<>>
  BY <1>1, ListsOne, LoadOfOne
<1>7. Packs(<<>>, {}, lens, cap) /\ {} \cap E = {} /\ {} \cup E = E
  BY PacksNone
<1> HIDE DEF x, E
<1>8. Packs(Insert(<<>>, x, lens), {} \cup E, lens, cap)
  BY <1>6, <1>7, InsertPacks
<1>9. Packs(Insert(<<>>, x, lens), E, lens, cap)
  BY <1>7, <1>8
<1> QED BY <1>5, <1>9 DEF E

\* All of what is left goes into the new bins.
LEMMA NewBinsPack ==
  ASSUME NEW lens, NEW cap, Packable(lens, cap), NEW s, NEW R \in SUBSET (1..Len(lens)),
         Lists(s, R), s # <<>>
  PROVE  Packs(NewBins(s, lens, cap), R, lens, cap)
<1> DEFINE n == Len(s)
           I == 1..Len(lens)
           V == Bins1(I)
           e == << <<>> >>
<1>1. n \in Nat /\ n # 0
  BY EmptySeq DEF Lists
<1>2. Takes(s, R, n) /\ DOMAIN s = 1..n /\ \A k \in 1..n : s[k] \in I
  <2>1. Takes(s, R, n)
    BY TakenOneByOne
  <2>2. DOMAIN s = 1..n /\ \A k \in 1..n : s[k] \in R
    BY DEF Lists
  <2> QED BY <2>1, <2>2
<1>3. e \in V /\ \A a \in V : \A k \in 1..n : PlaceEmptiest(a, s[k], lens, cap) \in V
  <2>1. ASSUME NEW a \in V, NEW k \in 1..n PROVE PlaceEmptiest(a, s[k], lens, cap) \in V
    <3>1. s[k] \in I
      BY <1>2
    <3> HIDE DEF I, n
    <3> QED BY <3>1, PlaceEmptiestType
  <2>2. e \in V
    <3> HIDE DEF I
    <3>1. e \in Seq(Seq(I)) /\ Len(e) = 1
      OBVIOUS
    <3>2. e # <<>>
      BY <3>1
    <3> HIDE DEF e
    <3> QED BY <3>1, <3>2 DEF Bins1
  <2> QED BY <2>1, <2>2
<1> HIDE DEF I, V, n, e
<1>4. NewBinsStepsIn(V, n, e, s, s, lens, cap)
  <2>1. e = << <<>> >>
    BY DEF e
  <2> QED BY ONLY <1>1, <1>2, <1>3, <2>1, NewBinsSteps
<1>5. PICK st \in [0..n -> V] :
        /\ st[0] = e /\ NewBins(s, lens, cap) = st[n]
        /\ \A k \in 1..n : st[k] = PlaceEmptiest(st[k - 1], s[k], lens, cap)
  BY <1>4, Zenon DEF NewBinsStepsIn
<1> DEFINE T == {k \in 0..n : k # 0 => Packs(st[k], Taken(s, k), lens, cap)}
<1>6. 0 \in T
  BY <1>1
<1>7. ASSUME NEW k \in 0..(n - 1), k \in T PROVE k + 1 \in T
  <2>1. k + 1 \in 1..n /\ k + 1 \in 0..n /\ (k + 1) - 1 = k /\ k \in 0..n
    BY <1>1
  <2> DEFINE i == s[k + 1]
             U == Taken(s, k)
             a == st[k]
  <2>2. /\ Taken(s, k + 1) = U \cup {i} /\ i \in R
        /\ i \notin U /\ U \subseteq R
    BY <1>2, <2>1 DEF Takes
  <2>3. st[k + 1] = PlaceEmptiest(a, i, lens, cap)
    BY <1>5, <2>1
  <2>4. CASE k = 0
    <3>1. a = << <<>> >> /\ U = {}
      BY <1>2, <1>5, <2>4 DEF e, Takes
    <3> HIDE DEF i
    <3>2. Packs(PlaceEmptiest(<< <<>> >>, i, lens, cap), {i}, lens, cap)
      BY <2>2, PlaceEmptiestFirst
    <3>3. U \cup {i} = {i}
      BY <3>1
    <3> HIDE DEF a, U
    <3>4. Packs(st[k + 1], Taken(s, k + 1), lens, cap)
      BY <2>2, <2>3, <3>1, <3>2, <3>3, Zenon
    <3> QED BY <2>1, <3>4
  <2>5. CASE k # 0
    <3>1. Packs(a, U, lens, cap) /\ a # <<>>
      <4>1. a \in V
        BY <1>5, <2>1
      <4> QED BY <1>7, <2>5, <4>1 DEF V, Bins1
    <3> HIDE DEF a, U, i
    <3>2. Packs(st[k + 1], U \cup {i}, lens, cap)
      BY <2>2, <2>3, <3>1, PlaceEmptiestPacks
    <3>3. Packs(st[k + 1], Taken(s, k + 1), lens, cap)
      BY <2>2, <3>2
    <3> QED BY <2>1, <3>3
  <2> QED BY <2>4, <2>5
<1>8. n \in T
  <2>1. \A k \in 0..n : k \in T
    <3> HIDE DEF T
    <3> QED BY <1>1, <1>6, <1>7, InductionTo
  <2> QED BY <1>1, <2>1
<1> QED BY <1>1, <1>2, <1>5, <1>8 DEF Takes

\* ModifiedFirstFitDecreasingPacker packs them all.
LEMMA ModifiedFirstFitDecreasingPacks ==
  ASSUME NEW lens, NEW cap, Packable(lens, cap)
  PROVE  Packs(ModifiedFirstFitDecreasing(lens, cap), 1..Len(lens), lens, cap)
<1> DEFINE I == 1..Len(lens)
           one == Classified(lens, cap)
           two == AddMedium(one, lens, cap)
           three == AddSmall(two, lens, cap)
           left == Leftovers(three, lens)
           four == FillGreedily(left, lens, cap)
<1>1. Weighs(lens, I) /\ cap \in Int
  BY PackableWeighs DEF Packable
<1>2. one \in Sorted4(I) /\ Phase(one, I, lens, cap)
  BY ClassifiedPhase, ClassifiedType
<1> HIDE DEF I, one
<1>3. two \in Sorted4(I) /\ Phase(two, I, lens, cap)
  BY <1>1, <1>2, AddMediumPhase
<1> HIDE DEF two
<1>4. three \in Sorted4(I) /\ Phase(three, I, lens, cap)
  BY <1>1, <1>3, AddSmallPhase
<1> HIDE DEF three
<1>5. left \in Left2(I) /\ LeftPhase(left, I, lens, cap)
  BY <1>1, <1>4, LeftoversPhase
<1> HIDE DEF left
<1>6. four \in Left2(I) /\ LeftPhase(four, I, lens, cap)
  BY <1>1, <1>5, FillGreedilyPhase
<1>7. ModifiedFirstFitDecreasing(lens, cap) = PackLeftovers(four, lens, cap)
  BY DEF ModifiedFirstFitDecreasing, four, left, three, two, one
<1> HIDE DEF four
<1> DEFINE bins == four.bins
           rest == four.rest
<1>8. PackLeftovers(four, lens, cap) = IF rest = <<>> THEN bins ELSE bins \o NewBins(rest, lens, cap)
  BY DEF PackLeftovers
<1>9. PICK B \in SUBSET I : Packs(bins, B, lens, cap) /\ Lists(rest, I \ B)
  BY <1>6 DEF LeftPhase
<1> DEFINE R == I \ B
<1>10. R \in SUBSET I /\ B \cap R = {} /\ B \cup R = I /\ Lists(rest, R)
  BY <1>9
<1> HIDE DEF R, bins, rest
<1>11. CASE rest = <<>>
  <2>1. R = {}
    BY <1>10, <1>11 DEF Lists
  <2>2. B = I
    BY <1>10, <2>1
  <2> QED BY <1>7, <1>8, <1>9, <1>11, <2>2 DEF I
<1>12. CASE rest # <<>>
  <2>1. Packs(NewBins(rest, lens, cap), R, lens, cap)
    BY <1>10, <1>12, NewBinsPack DEF I
  <2>2. Packs(bins \o NewBins(rest, lens, cap), B \cup R, lens, cap)
    BY <1>9, <1>10, <2>1, PacksConcat
  <2> QED BY <1>7, <1>8, <1>10, <1>12, <2>2 DEF I
<1> QED BY <1>11, <1>12

-----------------------------------------------------------------------------
(* _adjust_bin_count *)

\* The number aimed at: the least multiple that is large enough.
LEMMA TargetCountIs ==
  ASSUME NEW count \in Nat, NEW m \in Nat \ {0}, NEW t, t = TargetCount(count, m, m)
  PROVE  /\ t \in Nat /\ t >= m /\ t >= count /\ \E q \in Nat : t = q * m
         /\ \A d \in Nat : m <= d * m /\ count <= d * m => t <= d * m
<1> DEFINE a == IF count < m THEN m ELSE count
           b == (a + m) - 1
           q == b \div m
           r == b % m
<1>1. a \in Nat /\ a >= m /\ a >= count /\ (a = m \/ a = count) /\ a >= 1
  OBVIOUS
<1>2. t = ((a + m - 1) \div m) * m /\ a + m - 1 = b
  BY <1>1 DEF TargetCount
<1> HIDE DEF a
<1>3. b \in Nat
  BY <1>1
<1>4. q \in Nat /\ r \in 0..(m - 1) /\ b = q * m + r
  <2> HIDE DEF b
  <2> QED BY <1>3, Division
<1>5. t = q * m
  BY <1>2
<1> HIDE DEF q, r
<1>6. q * m \in Nat
  BY <1>4
<1> DEFINE p == q * m
<1>7. p \in Nat /\ (a + m) - 1 = p + r /\ t = p
  BY <1>4, <1>5, <1>6
<1> HIDE DEF p
<1>8. t >= a
  BY <1>1, <1>4, <1>7
<1>9. ASSUME NEW d \in Nat, m <= d * m, count <= d * m PROVE t <= d * m
  <2>1. a <= d * m /\ d * m \in Nat
    BY <1>1, <1>9
  <2>2. t < d * m + m
    BY <1>1, <1>4, <1>7, <2>1
  <2>3. (d + 1) * m = d * m + m
    OBVIOUS
  <2>4. q * m < (d + 1) * m
    BY <1>5, <2>2, <2>3
  <2>5. q < d + 1
    BY <1>4, <2>4, MultiplyStrictly
  <2>6. q <= d
    BY <1>4, <2>5
  <2> QED BY <1>4, <1>5, <2>6, MultiplyMonotonic
<1> QED BY <1>1, <1>4, <1>5, <1>7, <1>8, <1>9

\* A bin that gives away its last sequence.
LEMMA PacksOneLess ==
  ASSUME NEW lens, NEW cap, Packable(lens, cap), NEW bins, NEW S \in SUBSET (1..Len(lens)),
         Packs(bins, S, lens, cap), NEW b \in 1..Len(bins), Len(bins[b]) > 1
  PROVE  /\ Last(bins[b]) \in S
         /\ Packs([bins EXCEPT ![b] = Front(bins[b])], S \ {Last(bins[b])}, lens, cap)
<1> DEFINE s == bins[b]
           f == Front(s)
           x == Last(s)
           r == [bins EXCEPT ![b] = f]
<1>1. bins \in Seq(Seq(S)) /\ s \in Seq(S) /\ s # <<>> /\ Weighs(lens, S)
  <2>1. bins \in Seq(Seq(S))
    BY PacksSeq
  <2>2. s # <<>>
    BY DEF Packs
  <2> QED BY <2>1, <2>2, PackableWeighs
<1>2. Len(f) = Len(s) - 1 /\ f \in Seq(S) /\ Len(s) \in Nat
  <2> HIDE DEF s
  <2> QED BY <1>1, FrontOf
<1>3. f # <<>>
  <2>1. Len(s) > 1
    OBVIOUS
  <2> HIDE DEF f, s
  <2> DEFINE p == Len(s)
  <2>3. Len(f) = p - 1 /\ p \in Nat /\ p > 1
    BY <1>2, <2>1
  <2> HIDE DEF p
  <2>2. Len(f) # 0
    BY ONLY <2>3
  <2> QED BY <2>2
<1>4. Load(f, lens) <= cap
  <2>1. Load(s, lens) <= cap
    BY DEF Packs
  <2>2. Load(f, lens) <= Load(s, lens) /\ Load(f, lens) \in Int /\ Load(s, lens) \in Int /\ cap \in Int
    <3>1. Load(f, lens) \in Nat /\ Load(s, lens) \in Nat
      <4> HIDE DEF s, f
      <4> QED BY <1>1, <1>2, LoadIsTotal
    <3>2. Load(f, lens) <= Load(s, lens)
      <4> HIDE DEF s
      <4> QED BY <1>1, LoadOfFront
    <3> QED BY <3>1, <3>2 DEF Packable
  <2> HIDE DEF s, f
  <2> QED BY <2>1, <2>2
<1>5. x \in S /\ Deals(r, S \ {x})
  BY <1>1, DealsOneLess DEF Packs
<1>6. Len(r) = Len(bins) /\ \A c \in 1..Len(bins) : r[c] = IF c = b THEN f ELSE bins[c]
  <2> HIDE DEF s, f
  <2> QED BY <1>1
<1> HIDE DEF r, f, x
<1>7. \A c \in 1..Len(r) : r[c] # <<>> /\ Load(r[c], lens) <= cap
  BY <1>3, <1>4, <1>6 DEF Packs
<1>8. x \in S /\ Packs(r, S \ {x}, lens, cap)
  BY <1>5, <1>7 DEF Packs
<1> QED BY <1>8 DEF r, f, x

\* Which bin gives.
SplitAs(r, acc, b) ==
  r = Append([acc EXCEPT ![b] = Front(acc[b])], <<Last(acc[b])>>)

\* A split raises only when no bin has one to spare; otherwise one of the bins
\* that have more than one gives its last.
LEMMA SplitFound ==
  ASSUME NEW acc, NEW bySize, NEW c \in Nat, Lists(bySize, 1..c)
  PROVE  \/ /\ Split(acc, bySize) = Raised
            /\ acc = Raised \/ \A b \in 1..c : ~ (Len(acc[b]) > 1)
         \/ \E b \in 1..c : Len(acc[b]) > 1 /\ SplitAs(Split(acc, bySize), acc, b)
<1> DEFINE n == Len(bySize)
           P == {j \in 1..n : Len(acc[bySize[j]]) > 1}
           k == SelectInSeq(bySize, LAMBDA b : Len(acc[b]) > 1)
           d == bySize[k]
           r == Split(acc, bySize)
<1>1. Listed(bySize, 1..c, n)
  BY ListsOpen
<1>2. n \in Nat /\ (\A x \in 1..c : \E j \in 1..n : bySize[j] = x) /\ \A j \in 1..n : bySize[j] \in 1..c
  BY <1>1, Zenon DEF Listed
<1>3. k = IF P # {} THEN Min(P) ELSE 0
  BY DEF SelectInSeq
<1>4. r = IF acc = Raised \/ k = 0 THEN Raised
          ELSE Append([acc EXCEPT ![d] = Front(acc[d])], <<Last(acc[d])>>)
  BY DEF Split
<1> HIDE DEF k, r
<1>5. Finds(k, n, P)
  <2>1. n \in Nat /\ P \in SUBSET (1..n)
    BY <1>2
  <2> HIDE DEF P, n
  <2> QED BY <1>3, <2>1, MinAndMaxIn
<1>6. CASE acc = Raised
  BY <1>4, <1>6 DEF r
<1>7. CASE acc # Raised /\ P = {}
  <2>1. k = 0
    BY <1>5, <1>7 DEF Finds
  <2>2. r = Raised
    BY <1>4, <2>1
  <2>3. \A b \in 1..c : ~ (Len(acc[b]) > 1)
    <3> TAKE b \in 1..c
    <3>1. PICK j \in 1..n : bySize[j] = b
      BY <1>2
    <3>2. j \notin P
      BY <1>7
    <3> QED BY <3>1, <3>2
  <2> QED BY <2>2, <2>3 DEF r
<1>8. CASE acc # Raised /\ P # {}
  <2>1. k \in P /\ k \in 1..n /\ k # 0
    <3>1. k \in P /\ k \in 1..n
      BY <1>5, <1>8 DEF Finds
    <3> QED BY <1>2, <3>1
  <2>2. d \in 1..c /\ Len(acc[d]) > 1
    BY <1>2, <2>1
  <2> HIDE DEF d
  <2>3. SplitAs(r, acc, d)
    BY <1>4, <1>8, <2>1 DEF SplitAs
  <2> QED BY <2>2, <2>3 DEF r
<1> QED BY <1>6, <1>7, <1>8

\* Bins that are at least so many, or an error.
AtLeast(I, c) == {bins \in Seq(Seq(I)) : bins = <<>> \/ Len(bins) >= c}

\* They stay so.
LEMMA SplitType ==
  ASSUME NEW I, NEW c \in Nat, NEW acc \in AtLeast(I, c), NEW bySize, Lists(bySize, 1..c)
  PROVE  Split(acc, bySize) \in AtLeast(I, c)
<1> DEFINE r == Split(acc, bySize)
<1>1. acc \in Seq(Seq(I)) /\ Len(acc) \in Nat /\ (acc = <<>> \/ Len(acc) >= c)
  BY DEF AtLeast
<1>2. \/ r = Raised
      \/ \E b \in 1..c : Len(acc[b]) > 1 /\ SplitAs(r, acc, b) /\ acc # <<>>
  <2>1. \/ /\ r = Raised
           /\ acc = Raised \/ \A b \in 1..c : ~ (Len(acc[b]) > 1)
        \/ \E b \in 1..c : Len(acc[b]) > 1 /\ SplitAs(r, acc, b)
    BY SplitFound
  <2>2. acc = Raised => r = Raised
    BY DEF Split
  <2> HIDE DEF r
  <2> QED BY <2>1, <2>2 DEF Raised
<1> HIDE DEF r
<1>3. ASSUME r = Raised PROVE r \in AtLeast(I, c)
  <2>1. <<>> \in Seq(Seq(I))
    OBVIOUS
  <2>2. r \in AtLeast(I, c)
    BY <1>3, <2>1 DEF AtLeast, Raised
  <2> QED BY <2>2
<1>4. ASSUME NEW b \in 1..c, Len(acc[b]) > 1, SplitAs(r, acc, b), acc # <<>>
      PROVE  r \in AtLeast(I, c)
  <2> DEFINE s == acc[b]
             f == Front(s)
             y == <<Last(s)>>
             a == [acc EXCEPT ![b] = f]
  <2>1. b \in 1..Len(acc) /\ s \in Seq(I) /\ s # <<>>
    <3>1. b \in 1..Len(acc)
      BY <1>1, <1>4
    <3>2. s \in Seq(I)
      BY <1>1, <3>1
    <3>3. s # <<>>
      BY <1>4, <3>2
    <3> QED BY <3>1, <3>2, <3>3
  <2>2. f \in Seq(I) /\ Last(s) \in I
    <3> HIDE DEF s
    <3> QED BY <2>1, FrontOf
  <2>3. y \in Seq(I)
    BY <2>2
  <2> HIDE DEF f, y, s
  <2>4. a \in Seq(Seq(I)) /\ Len(a) = Len(acc)
    BY <1>1, <2>1, <2>2
  <2>5. r = Append(a, y)
    BY <1>4 DEF SplitAs, s, f, y
  <2> HIDE DEF a
  <2>6. r \in Seq(Seq(I)) /\ Len(r) = Len(acc) + 1
    BY <2>3, <2>4, <2>5
  <2>7. Len(acc) >= c
    BY <1>1, <1>4
  <2> QED BY <1>1, <2>6, <2>7 DEF AtLeast
<1>5. r \in AtLeast(I, c)
  BY <1>2, <1>3, <1>4
<1> QED BY <1>5 DEF r

\* A split keeps the bins packed.
LEMMA SplitPacks ==
  ASSUME NEW lens, NEW cap, Packable(lens, cap), NEW bins, NEW S \in SUBSET (1..Len(lens)),
         Packs(bins, S, lens, cap), NEW b \in 1..Len(bins), Len(bins[b]) > 1,
         NEW r, SplitAs(r, bins, b)
  PROVE  /\ Packs(r, S, lens, cap) /\ Len(r) = Len(bins) + 1 /\ r # <<>>
         /\ Len(r[Len(r)]) = 1 /\ \A c \in 1..Len(bins) : c # b => r[c] = bins[c]
<1> DEFINE x == Last(bins[b])
           a == [bins EXCEPT ![b] = Front(bins[b])]
           R == S \ {x}
           y == <<x>>
           n == Len(bins)
<1>1. x \in S /\ Packs(a, R, lens, cap)
  BY PacksOneLess
<1>2. r = Append(a, y)
  BY DEF SplitAs
<1>3. bins \in Seq(Seq(S)) /\ n \in Nat
  BY PacksSeq
<1>4. \A c \in 1..n : c # b => a[c] = bins[c]
  BY <1>3
<1>5. Len(a) = n
  BY <1>3
<1> HIDE DEF a, x
<1>6. x \in 1..Len(lens) /\ x \notin R /\ R \cup {x} = S
  BY <1>1
<1>7. Packs(r, R \cup {x}, lens, cap)
  <2> HIDE DEF R
  <2> QED BY <1>1, <1>2, <1>6, PacksAlone
<1>8. a \in Seq(Seq(S)) /\ y \in Seq(S) /\ Len(y) = 1
  <2>1. a \in Seq(Seq(R))
    BY <1>1, PacksSeq
  <2> QED BY <1>1, <2>1
<1> HIDE DEF y
<1>9. Len(r) = n + 1 /\ r[n + 1] = y /\ r # <<>> /\ \A c \in 1..n : r[c] = a[c]
  <2> DEFINE V == Seq(S)
  <2>1. a \in Seq(V) /\ y \in V
    BY <1>8
  <2> HIDE DEF V
  <2>2. r # <<>>
    BY <1>2, <2>1, AppendNotEmpty
  <2>3. Len(r) = Len(a) + 1 /\ r[Len(a) + 1] = y /\ \A c \in 1..Len(a) : r[c] = a[c]
    BY <1>2, <2>1, AppendProperties
  <2> QED BY <1>5, <2>2, <2>3
<1>10. Len(r[Len(r)]) = 1
  BY <1>8, <1>9
<1>11. \A c \in 1..n : c # b => r[c] = bins[c]
  BY <1>4, <1>9
<1> QED BY <1>6, <1>7, <1>9, <1>10, <1>11

\* As long as there are enough sequences, each round makes one bin more.
LEMMA SplitAgainPacks ==
  ASSUME NEW lens, NEW cap, Packable(lens, cap), NEW bins, NEW S \in SUBSET (1..Len(lens)),
         Packs(bins, S, lens, cap), NEW c, c = Len(bins), c >= 1,
         NEW bySize, Lists(bySize, 1..c), NEW more \in Nat, c + more <= Cardinality(S)
  PROVE  /\ Packs(SplitAgain(bins, bySize, more), S, lens, cap)
         /\ Len(SplitAgain(bins, bySize, more)) = c + more
<1> DEFINE V == AtLeast(S, c)
           s == [m \in 1..more |-> m]
<1>1. c \in Nat /\ bins \in V
  <2>1. bins \in Seq(Seq(S)) /\ Len(bins) \in Nat
    BY PacksSeq
  <2> QED BY <2>1 DEF AtLeast
<1>2. \A a \in V : \A k \in 1..more : Split(a, bySize) \in V
  BY <1>1, SplitType
<1>3. s = [m \in 1..more |-> m] /\ DOMAIN s = 1..more
  OBVIOUS
<1> HIDE DEF V, s
<1>4. SplitStepsIn(V, more, bins, s, bins, bySize, more)
  BY ONLY <1>1, <1>2, <1>3, more \in Nat, SplitSteps
<1>5. PICK st \in [0..more -> V] :
        /\ st[0] = bins /\ SplitAgain(bins, bySize, more) = st[more]
        /\ \A k \in 1..more : st[k] = Split(st[k - 1], bySize)
  BY <1>4, Zenon DEF SplitStepsIn
<1> DEFINE T == {k \in 0..more : /\ Packs(st[k], S, lens, cap) /\ Len(st[k]) = c + k
                                 /\ \A b \in 1..(c + k) : b > c => Len(st[k][b]) = 1}
<1>6. 0 \in T
  <2>1. \A b \in 1..(c + 0) : ~ (b > c)
    BY <1>1
  <2>2. c + 0 = c /\ 0 \in 0..more
    BY <1>1
  <2> QED BY <1>5, <2>1, <2>2
<1>7. ASSUME NEW k \in 0..(more - 1), k \in T PROVE k + 1 \in T
  <2> DEFINE a == st[k]
             r == st[k + 1]
             n == c + k
  <2>1. k + 1 \in 1..more /\ k + 1 \in 0..more /\ (k + 1) - 1 = k /\ k \in 0..more
        /\ n \in Nat /\ n >= 1 /\ c <= n /\ n < c + more /\ n + 1 = c + (k + 1)
    BY <1>1
  <2>2. r = Split(a, bySize)
    BY <1>5, <2>1
  <2>3. Packs(a, S, lens, cap) /\ Len(a) = n /\ \A b \in 1..n : b > c => Len(a[b]) = 1
    BY <1>7
  <2> HIDE DEF a, r, n
  <2>4. \/ /\ r = Raised
           /\ a = Raised \/ \A b \in 1..c : ~ (Len(a[b]) > 1)
        \/ \E b \in 1..c : Len(a[b]) > 1 /\ SplitAs(r, a, b)
    BY <1>1, <2>2, SplitFound
  <2>5. a # Raised
    BY <2>1, <2>3 DEF Raised
  <2>6. ~ \A b \in 1..c : ~ (Len(a[b]) > 1)
    <3> SUFFICES ASSUME \A b \in 1..c : ~ (Len(a[b]) > 1) PROVE FALSE
      OBVIOUS
    <3>1. \A b \in 1..Len(a) : ~ (Len(a[b]) > 1)
      <4> TAKE b \in 1..Len(a)
      <4>1. CASE b > c
        <5>1. b \in 1..n
          BY <2>3
        <5>2. Len(a[b]) = 1
          BY ONLY <2>3, <4>1, <5>1
        <5> QED BY ONLY <5>2
      <4>2. CASE ~ (b > c)
        <5>1. b \in 1..c
          BY <1>1, <2>1, <2>3, <4>2
        <5> QED BY <5>1
      <4> QED BY <4>1, <4>2
    <3>2. Cardinality(S) \in Nat /\ Cardinality(S) <= n
      <4>1. Deals(a, S) /\ \A b \in 1..Len(a) : a[b] # <<>>
        BY <2>3 DEF Packs
      <4> QED BY <2>3, <3>1, <4>1, DealsCount
    <3> QED BY <1>1, <2>1, <3>2
  <2>7. PICK b \in 1..c : Len(a[b]) > 1 /\ SplitAs(r, a, b)
    BY <2>4, <2>5, <2>6
  <2>8. b \in 1..Len(a)
    BY <1>1, <2>1, <2>3
  <2>9. /\ Packs(r, S, lens, cap) /\ Len(r) = n + 1
        /\ Len(r[Len(r)]) = 1 /\ \A d \in 1..n : d # b => r[d] = a[d]
    <3>1. Packs(a, S, lens, cap) /\ Len(a[b]) > 1 /\ SplitAs(r, a, b)
      BY <2>3, <2>7
    <3>2. /\ Packs(r, S, lens, cap) /\ Len(r) = Len(a) + 1
          /\ Len(r[Len(r)]) = 1 /\ \A d \in 1..Len(a) : d # b => r[d] = a[d]
      BY ONLY Packable(lens, cap), S \in SUBSET (1..Len(lens)), <2>8, <3>1, SplitPacks
    <3>3. Len(a) = n
      BY <2>3
    <3> QED BY ONLY <3>2, <3>3
  <2>10. \A d \in 1..(n + 1) : d > c => Len(r[d]) = 1
    <3> TAKE d \in 1..(n + 1)
    <3> HAVE d > c
    <3>1. CASE d = n + 1
      BY <2>9, <3>1
    <3>2. CASE d # n + 1
      <4>1. d \in 1..n /\ d # b
        BY <1>1, <2>1, <3>2
      <4> QED BY <2>3, <2>9, <4>1
    <3> QED BY <3>1, <3>2
  <2>11. Packs(st[k + 1], S, lens, cap) /\ Len(st[k + 1]) = c + (k + 1)
         /\ \A d \in 1..(c + (k + 1)) : d > c => Len(st[k + 1][d]) = 1
    BY <2>1, <2>9, <2>10 DEF r
  <2> QED BY <2>1, <2>11
<1>8. more \in T
  <2>1. \A k \in 0..more : k \in T
    <3> HIDE DEF T
    <3> QED BY <1>6, <1>7, InductionTo
  <2> QED BY <2>1
<1> QED BY <1>5, <1>8

\* What comes out, if there are enough sequences for so many bins: a multiple
\* of the shards, and no bin too full.
PackedFor(bins, lens, cap, shards) ==
  /\ Packs(bins, 1..Len(lens), lens, cap) /\ bins # <<>>
  /\ Len(bins) >= shards /\ \E q \in Nat : Len(bins) = q * shards

\* _adjust_bin_count makes a packing one for the shards, or raises; it does not
\* raise when the sequences are as many as a multiple of the shards.
LEMMA AdjustBinCountPacks ==
  ASSUME NEW lens, NEW cap, Packable(lens, cap), NEW bins, Packs(bins, 1..Len(lens), lens, cap),
         NEW shards \in Nat \ {0}, Len(lens) >= 1
  PROVE  /\ \/ AdjustBinCount(bins, shards, shards) = Raised
            \/ PackedFor(AdjustBinCount(bins, shards, shards), lens, cap, shards)
         /\ (\E d \in Nat : Len(lens) = d * shards) => AdjustBinCount(bins, shards, shards) # Raised
<1> DEFINE total == Len(lens)
           S == 1..total
           c == Len(bins)
           t == TargetCount(c, shards, shards)
           flat == FlattenSeq(bins)
           sizes == [b \in 1..c |-> Len(bins[b])]
           by == BySize(bins)
           r == AdjustBinCount(bins, shards, shards)
           again == SplitAgain(bins, by, t - c)
<1>1. total \in Nat /\ total >= 1 /\ c \in Nat /\ bins \in Seq(Seq(S))
  BY PacksSeq DEF Packable
<1>2. IsFiniteSet(S) /\ Cardinality(S) = total
  <2>1. 1 \in Int /\ total \in Int /\ total \in Nat
    BY <1>1
  <2>2. Cardinality(1..total) = (IF 1 > total THEN 0 ELSE total - 1 + 1) /\ IsFiniteSet(1..total)
    BY ONLY <2>1, FS_Interval
  <2>3. ~ (1 > total) /\ total - 1 + 1 = total
    BY <1>1
  <2> QED BY <2>2, <2>3
<1>3. Deals(bins, S) /\ \A b \in 1..Len(bins) : bins[b] # <<>>
  BY DEF Packs
<1> HIDE DEF S, total
<1>4. c <= total
  BY <1>2, <1>3, DealsCount
<1>5. Len(flat) = total
  <2>1. Lists(flat, S)
    BY <1>3, DealsFlat
  <2> HIDE DEF flat
  <2> QED BY <1>2, <2>1, ListsCount
<1>6. c >= 1
  <2> SUFFICES ASSUME c = 0 PROVE FALSE
    BY <1>1
  <2>1. \A b \in 1..Len(bins) : ~ (Len(bins[b]) > 1)
    OBVIOUS
  <2>2. Cardinality(S) <= Len(bins)
    BY <1>3, <2>1, DealsCount
  <2> QED BY <1>1, <1>2, <2>2
<1>7. Lists(by, 1..c)
  <2>1. \A b \in 1..c : Len(bins[b]) \in Nat
    BY <1>1
  <2>2. sizes \in Seq(Nat) /\ Len(sizes) = c
    BY <1>1, <2>1
  <2>3. by = Decreasing(sizes)
    BY DEF BySize
  <2> HIDE DEF sizes, by
  <2>4. Lists(by, 1..Len(sizes))
    BY <2>2, <2>3, DecreasingLists
  <2> QED BY <2>2, <2>4
<1>8. /\ t \in Nat /\ t >= shards /\ t >= c /\ \E q \in Nat : t = q * shards
      /\ \A d \in Nat : shards <= d * shards /\ c <= d * shards => t <= d * shards
  <2> DEFINE cc == c
  <2>1. cc \in Nat
    BY <1>1
  <2> HIDE DEF cc
  <2>2. \A u : u = TargetCount(cc, shards, shards) =>
          /\ u \in Nat /\ u >= shards /\ u >= cc /\ \E q \in Nat : u = q * shards
          /\ \A d \in Nat : shards <= d * shards /\ cc <= d * shards => u <= d * shards
    BY <2>1, TargetCountIs
  <2> QED BY <2>2 DEF cc
<1>9. r = IF Len(flat) < t THEN Raised ELSE again
  BY DEF AdjustBinCount
<1> HIDE DEF t, flat, by, r
<1>10. CASE total < t
  <2>1. r = Raised
    BY <1>5, <1>9, <1>10
  <2>2. ASSUME NEW d \in Nat, total = d * shards PROVE FALSE
    <3>1. c <= d * shards
      BY <1>4, <2>2
    <3>2. shards <= d * shards
      <4>1. d >= 1
        <5> SUFFICES ASSUME d = 0 PROVE FALSE
          OBVIOUS
        <5>1. d * shards = 0
          OBVIOUS
        <5> QED BY <1>1, <2>2, <5>1
      <4>2. 1 * shards <= d * shards
        BY <4>1, MultiplyMonotonic
      <4> QED BY <4>2
    <3>3. t <= d * shards
      BY <1>8, <3>1, <3>2
    <3>4. d * shards \in Nat
      BY <1>1, <2>2
    <3> QED BY <1>1, <1>8, <1>10, <2>2, <3>3
  <2> QED BY <2>1, <2>2 DEF r, total
<1>11. CASE ~ (total < t)
  <2> DEFINE more == t - c
  <2>1. r = SplitAgain(bins, by, more) /\ more \in Nat /\ c + more = t /\ c + more <= Cardinality(S)
    BY <1>1, <1>2, <1>5, <1>8, <1>9, <1>11
  <2> HIDE DEF more
  <2>2. S \in SUBSET (1..Len(lens)) /\ Packs(bins, S, lens, cap) /\ c = Len(bins)
    BY DEF S, total
  <2>3. Packs(r, S, lens, cap) /\ Len(r) = c + more
    <3> HIDE DEF c
    <3> QED BY <1>6, <1>7, <2>1, <2>2, SplitAgainPacks
  <2>4. Len(r) = t /\ r # <<>>
    BY <1>1, <1>6, <1>8, <2>1, <2>3
  <2>5. PackedFor(r, lens, cap, shards)
    BY <1>8, <2>3, <2>4 DEF PackedFor, S, total
  <2> QED BY <2>4, <2>5 DEF r, Raised
<1> QED BY <1>10, <1>11

\* get_packer(...).pack raises for a sequence that is too long, or with fewer
\* sequences than bins; else it packs all of them.
LEMMA PackPacks ==
  ASSUME NEW algorithm \in {"concatenative", "first_fit_decreasing", "first_fit_shuffle",
                            "modified_first_fit_decreasing"},
         NEW lens \in Seq(Nat), Len(lens) >= 1, NEW cap \in Int, NEW shards \in Nat \ {0},
         NEW bins \in Pack(algorithm, lens, cap, shards)
  PROVE  /\ bins = Raised \/ PackedFor(bins, lens, cap, shards)
         /\ (\A i \in 1..Len(lens) : lens[i] <= cap) /\ (\E d \in Nat : Len(lens) = d * shards)
              => bins # Raised
<1> DEFINE A(raw) == AdjustBinCount(raw, shards, shards)
           I == 1..Len(lens)
           Random == {FirstFit(order, lens, cap) : order \in SetToSeqs(1..Len(lens))}
<1>1. CASE TooLong(lens, cap)
  <2>1. Pack(algorithm, lens, cap, shards) = {Raised}
    BY <1>1 DEF Pack
  <2>2. ~ \A i \in 1..Len(lens) : lens[i] <= cap
    <3>1. PICK i \in 1..Len(lens) : lens[i] > cap
      BY <1>1 DEF TooLong
    <3>2. lens[i] \in Nat
      OBVIOUS
    <3> QED BY <3>1, <3>2
  <2> QED BY <2>1, <2>2
<1>2. CASE ~ TooLong(lens, cap)
  <2>1. Packable(lens, cap)
    <3>1. \A i \in 1..Len(lens) : lens[i] <= cap
      <4> TAKE i \in 1..Len(lens)
      <4>1. ~ (lens[i] > cap) /\ lens[i] \in Nat
        BY <1>2 DEF TooLong
      <4> QED BY <4>1
    <3> QED BY <3>1 DEF Packable
  <2>2. \/ bins = A(Concatenative(lens, cap))
        \/ bins = A(FirstFit(Decreasing(lens), lens, cap))
        \/ \E order \in SetToSeqs(I) : bins = A(FirstFit(order, lens, cap))
        \/ bins = A(ModifiedFirstFitDecreasing(lens, cap))
    <3> HIDE DEF A
    <3>1. CASE algorithm = "concatenative"
      <4>1. Pack(algorithm, lens, cap, shards) = {A(raw) : raw \in {Concatenative(lens, cap)}}
        BY <1>2, <3>1, Zenon DEF Pack, A
      <4> QED BY <4>1
    <3>2. CASE algorithm = "first_fit_decreasing"
      <4>1. Pack(algorithm, lens, cap, shards) =
              {A(raw) : raw \in {FirstFit(Decreasing(lens), lens, cap)}}
        BY <1>2, <3>2 DEF Pack, A
      <4> QED BY <4>1
    <3>3. CASE algorithm = "first_fit_shuffle"
      <4>1. Pack(algorithm, lens, cap, shards) = {A(raw) : raw \in Random}
        BY <1>2, <3>3 DEF Pack, A
      <4> QED BY <4>1
    <3>4. CASE algorithm = "modified_first_fit_decreasing"
      <4>1. Pack(algorithm, lens, cap, shards) =
              {A(raw) : raw \in {ModifiedFirstFitDecreasing(lens, cap)}}
        BY <1>2, <3>4 DEF Pack, A
      <4> QED BY <4>1
    <3> QED BY <3>1, <3>2, <3>3, <3>4
  <2>3. PICK raw : Packs(raw, I, lens, cap) /\ bins = A(raw)
    <3> HIDE DEF A, I
    <3>1. CASE bins = A(Concatenative(lens, cap))
      BY <2>1, <3>1, ConcatenativePacks DEF I
    <3>2. CASE bins = A(FirstFit(Decreasing(lens), lens, cap))
      BY <2>1, <3>2, DecreasingLists, FirstFitPacks DEF I
    <3>3. CASE \E order \in SetToSeqs(I) : bins = A(FirstFit(order, lens, cap))
      <4>1. PICK order \in SetToSeqs(I) : bins = A(FirstFit(order, lens, cap))
        BY <3>3
      <4>2. Lists(order, I)
        <5>1. IsFiniteSet(I) /\ Cardinality(I) = Len(lens) /\ Len(lens) \in Nat
          <6> DEFINE n == Len(lens)
          <6>1. 1 \in Int /\ n \in Int /\ n \in Nat /\ n >= 1
            OBVIOUS
          <6> HIDE DEF n
          <6>2. Cardinality(1..n) = (IF 1 > n THEN 0 ELSE n - 1 + 1) /\ IsFiniteSet(1..n)
            BY ONLY <6>1, FS_Interval
          <6>3. ~ (1 > n) /\ n - 1 + 1 = n
            BY <6>1
          <6> QED BY <6>1, <6>2, <6>3 DEF n, I
        <5> DEFINE n == Len(lens)
        <5>2. order \in [1..n -> I] /\ n \in Nat /\ \A k, l \in 1..n : k # l => order[k] # order[l]
          <6>1. order \in [1..Cardinality(I) -> I]
                /\ \A k, l \in 1..Cardinality(I) : k # l => order[k] # order[l]
            BY <4>1, Zenon DEF SetToSeqs
          <6> QED BY <5>1, <6>1
        <5>3. order \in Seq(I) /\ Len(order) = n
          BY <5>2
        <5>4. \A k, l \in 1..n : order[k] = order[l] => k = l
          BY <5>2
        <5>5. \A x \in I : \E k \in 1..n : order[k] = x
          <6>1. order \in Injection(I, I)
            <7>1. I = 1..n /\ DOMAIN order = I /\ order \in [I -> I]
              BY <5>2 DEF I
            <7>2. IsInjective(order)
              BY <5>4, <7>1 DEF IsInjective
            <7> QED BY <7>1, <7>2, Zenon DEF Injection
          <6>2. order \in Surjection(I, I)
            BY <5>1, <6>1, FS_Injection
          <6> QED BY <6>2 DEF Surjection, I
        <5> QED BY <5>3, <5>4, <5>5 DEF Lists
      <4> QED BY <2>1, <4>1, <4>2, FirstFitPacks DEF I
    <3>4. CASE bins = A(ModifiedFirstFitDecreasing(lens, cap))
      BY <2>1, <3>4, ModifiedFirstFitDecreasingPacks DEF I
    <3> QED BY <2>2, <3>1, <3>2, <3>3, <3>4
  <2> QED BY <2>1, <2>3, AdjustBinCountPacks
<1> QED BY <1>1, <1>2

-----------------------------------------------------------------------------
(* The loops of batches, step by step *)

\* The cutting of microbatches, step by step.
CutStepsIn(V, n, base, s, widths, budget) ==
  \E st \in [0..n -> V] :
    /\ st[0] = base /\ CutByWidth(widths, budget) = st[n]
    /\ \A k \in 1..n : st[k] = AddPosition(st[k - 1], s[k], widths, budget)

\* The cutting runs through such cuts in any set V that its step does not leave.
LEMMA CutSteps ==
  ASSUME NEW widths, NEW budget, NEW V, NEW base \in V, base = [micro |-> << <<0, 0>> >>, width |-> << 0 >>],
         NEW s, s = Indices(widths), NEW n \in Nat, DOMAIN s = 1..n,
         \A a \in V : \A i \in 1..n : AddPosition(a, s[i], widths, budget) \in V
  PROVE  CutStepsIn(V, n, base, s, widths, budget)
<1> DEFINE Is(g) == g = [x \in SUBSET DOMAIN s |->
                           IF x = {} THEN base
                           ELSE AddPosition(g[x \ {Max(x)}], s[Max(x)], widths, budget)]
           F == [p \in (1..n) \X V |-> AddPosition(p[2], s[p[1]], widths, budget)]
<1>1. F \in [(1..n) \X V -> V]
  OBVIOUS
<1>2. PICK g \in [SUBSET (1..n) -> V] : Folds(g, n, base, F)
  <2> HIDE DEF F
  <2> QED BY <1>1, FoldExists, Zenon
<1>3. ASSUME NEW x \in SUBSET (1..n), x # {}
      PROVE  F[<<Max(x), g[x \ {Max(x)}]>>] = AddPosition(g[x \ {Max(x)}], s[Max(x)], widths, budget)
  <2>1. Max(x) \in 1..n
    BY <1>3, MaxOfSet
  <2>2. g[x \ {Max(x)}] \in V
    OBVIOUS
  <2> QED BY <2>1, <2>2
<1>4. Is(g)
  <2> HIDE DEF F
  <2> QED BY <1>2, <1>3 DEF Folds
<1> DEFINE iter == CHOOSE h : Is(h)
<1>5. Is(iter)
  <2> HIDE DEF Is
  <2> QED BY <1>4
<1>6. CutByWidth(widths, budget) = iter[DOMAIN s]
  BY Zenon DEF CutByWidth, FoldLeft, MapThenFoldSet
<1>7. iter[{}] = base
  <2> HIDE DEF iter
  <2> QED BY <1>5
<1>8. ASSUME NEW x \in SUBSET (1..n), x # {}, iter[x \ {Max(x)}] \in V
      PROVE  iter[x] = F[<<Max(x), iter[x \ {Max(x)}]>>]
  <2>1. Max(x) \in 1..n
    BY <1>8, MaxOfSet
  <2>2. iter[x] = AddPosition(iter[x \ {Max(x)}], s[Max(x)], widths, budget)
    <3> HIDE DEF iter
    <3> QED BY <1>5, <1>8
  <2> HIDE DEF iter
  <2> QED BY <1>8, <2>1, <2>2
<1> HIDE DEF iter, Is
<1>9. PICK st \in [0..n -> V] : IsTrace(st, n, base, F) /\ iter[1..n] = st[n]
  <2> HIDE DEF F
  <2>1. Recurses(iter, n, base, V, F)
    BY <1>7, <1>8 DEF Recurses
  <2>2. Traced(iter[1..n], n, base, V, F)
    BY ONLY <1>1, <2>1, base \in V, n \in Nat, FoldTrace
  <2> QED BY <2>2, Zenon DEF Traced
<1>10. ASSUME NEW k \in 1..n PROVE st[k] = AddPosition(st[k - 1], s[k], widths, budget)
  <2>1. st[k - 1] \in V
    OBVIOUS
  <2> QED BY <1>9, <2>1 DEF IsTrace
<1> HIDE DEF F
<1> QED BY <1>6, <1>9, <1>10, Zenon DEF IsTrace, CutStepsIn

\* The rows of shards, step by step.
RowsInStepsIn(V, n, base, s, parts) ==
  \E st \in [0..n -> V] :
    /\ st[0] = base /\ RowsIn(parts) = st[n]
    /\ \A k \in 1..n : st[k] = st[k - 1] + Len(s[k].rows)

\* The count runs through such numbers in any set V that its step does not leave.
LEMMA RowsInSteps ==
  ASSUME NEW parts, NEW V, NEW base \in V, base = 0,
         NEW s, s = parts, NEW n \in Nat, DOMAIN s = 1..n,
         \A a \in V : \A i \in 1..n : a + Len(s[i].rows) \in V
  PROVE  RowsInStepsIn(V, n, base, s, parts)
<1> DEFINE Is(g) == g = [x \in SUBSET DOMAIN s |->
                           IF x = {} THEN base
                           ELSE g[x \ {Max(x)}] + Len(s[Max(x)].rows)]
           F == [p \in (1..n) \X V |-> p[2] + Len(s[p[1]].rows)]
<1>1. F \in [(1..n) \X V -> V]
  OBVIOUS
<1>2. PICK g \in [SUBSET (1..n) -> V] : Folds(g, n, base, F)
  <2> HIDE DEF F
  <2> QED BY <1>1, FoldExists, Zenon
<1>3. ASSUME NEW x \in SUBSET (1..n), x # {}
      PROVE  F[<<Max(x), g[x \ {Max(x)}]>>] = g[x \ {Max(x)}] + Len(s[Max(x)].rows)
  <2>1. Max(x) \in 1..n
    BY <1>3, MaxOfSet
  <2>2. g[x \ {Max(x)}] \in V
    OBVIOUS
  <2> QED BY <2>1, <2>2
<1>4. Is(g)
  <2> HIDE DEF F
  <2> QED BY <1>2, <1>3 DEF Folds
<1> DEFINE iter == CHOOSE h : Is(h)
<1>5. Is(iter)
  <2> HIDE DEF Is
  <2> QED BY <1>4
<1>6. RowsIn(parts) = iter[DOMAIN s]
  BY Zenon DEF RowsIn, FoldLeft, MapThenFoldSet
<1>7. iter[{}] = base
  <2> HIDE DEF iter
  <2> QED BY <1>5
<1>8. ASSUME NEW x \in SUBSET (1..n), x # {}, iter[x \ {Max(x)}] \in V
      PROVE  iter[x] = F[<<Max(x), iter[x \ {Max(x)}]>>]
  <2>1. Max(x) \in 1..n
    BY <1>8, MaxOfSet
  <2>2. iter[x] = iter[x \ {Max(x)}] + Len(s[Max(x)].rows)
    <3> HIDE DEF iter
    <3> QED BY <1>5, <1>8
  <2> HIDE DEF iter
  <2> QED BY <1>8, <2>1, <2>2
<1> HIDE DEF iter, Is
<1>9. PICK st \in [0..n -> V] : IsTrace(st, n, base, F) /\ iter[1..n] = st[n]
  <2> HIDE DEF F
  <2>1. Recurses(iter, n, base, V, F)
    BY <1>7, <1>8 DEF Recurses
  <2>2. Traced(iter[1..n], n, base, V, F)
    BY ONLY <1>1, <2>1, base \in V, n \in Nat, FoldTrace
  <2> QED BY <2>2, Zenon DEF Traced
<1>10. ASSUME NEW k \in 1..n PROVE st[k] = st[k - 1] + Len(s[k].rows)
  <2>1. st[k - 1] \in V
    OBVIOUS
  <2> QED BY <1>9, <2>1 DEF IsTrace
<1> HIDE DEF F
<1> QED BY <1>6, <1>9, <1>10, Zenon DEF IsTrace, RowsInStepsIn

-----------------------------------------------------------------------------
(* Widths *)

\* w is the largest of the numbers, or 0.
IsWidest(w, d) ==
  /\ w \in Nat /\ \A i \in 1..Len(d) : d[i] <= w
  /\ w = 0 \/ \E i \in 1..Len(d) : w = d[i]

\* Widest is the largest of the numbers.
LEMMA WidestIs ==
  ASSUME NEW d \in Seq(Nat)
  PROVE  IsWidest(Widest(d), d)
<1> DEFINE n == Len(d)
<1>1. n \in Nat /\ DOMAIN d = 1..n /\ \A k \in 1..n : d[k] \in Nat
  OBVIOUS
<1>2. \A a \in Nat : \A k \in 1..n : WiderOf(a, d[k]) \in Nat
  BY <1>1 DEF WiderOf
<1> HIDE DEF n
<1>3. WidestStepsIn(Nat, n, 0, d, d)
  BY ONLY <1>1, <1>2, 0 \in Nat, WidestSteps
<1>4. PICK st \in [0..n -> Nat] :
        /\ st[0] = 0 /\ Widest(d) = st[n]
        /\ \A k \in 1..n : st[k] = WiderOf(st[k - 1], d[k])
  BY <1>3, Zenon DEF WidestStepsIn
<1> DEFINE T == {k \in 0..n : /\ \A i \in 1..k : d[i] <= st[k]
                              /\ st[k] = 0 \/ \E i \in 1..k : st[k] = d[i]}
<1>5. 0 \in T
  BY <1>1, <1>4
<1>6. ASSUME NEW k \in 0..(n - 1), k \in T PROVE k + 1 \in T
  <2> DEFINE a == st[k]
             x == d[k + 1]
             b == st[k + 1]
  <2>1. k + 1 \in 1..n /\ k + 1 \in 0..n /\ (k + 1) - 1 = k /\ k \in 0..n
    BY <1>1
  <2>2. a \in Nat /\ x \in Nat /\ b = IF x > a THEN x ELSE a
    BY <1>1, <1>4, <2>1 DEF WiderOf
  <2>3. (\A i \in 1..k : d[i] <= a /\ d[i] \in Nat) /\ (a = 0 \/ \E i \in 1..k : a = d[i])
    BY <1>1, <1>6, <2>1
  <2> HIDE DEF a, x, b
  <2>4. \A i \in 1..(k + 1) : d[i] <= b
    <3> TAKE i \in 1..(k + 1)
    <3>1. CASE i = k + 1
      BY <2>2, <3>1 DEF x
    <3>2. CASE i # k + 1
      <4>1. i \in 1..k
        BY <2>1, <3>2
      <4> QED BY <2>2, <2>3, <4>1
    <3> QED BY <3>1, <3>2
  <2>5. b = 0 \/ \E i \in 1..(k + 1) : b = d[i]
    <3>1. CASE x > a
      <4>1. k + 1 \in 1..(k + 1) /\ b = d[k + 1]
        BY <2>1, <2>2, <3>1 DEF x
      <4> QED BY <4>1
    <3>2. CASE ~ (x > a)
      <4>1. b = a /\ 1..k \subseteq 1..(k + 1)
        BY <2>1, <2>2, <3>2
      <4> QED BY <2>3, <4>1
    <3> QED BY <3>1, <3>2
  <2> QED BY <2>1, <2>4, <2>5 DEF b
<1>7. n \in T
  <2>1. \A k \in 0..n : k \in T
    <3> HIDE DEF T
    <3> QED BY <1>1, <1>5, <1>6, InductionTo
  <2> QED BY <1>1, <2>1
<1>8. st[n] \in Nat
  BY <1>1, <1>4
<1> QED BY <1>4, <1>7, <1>8 DEF IsWidest, n

-----------------------------------------------------------------------------
(* Parts of equal size *)

\* A function on the first numbers is a sequence.
IsSequence(f, V, n) == f \in Seq(V) /\ Len(f) = n /\ DOMAIN f = 1..n

\* A function given by its values on 1..n is a sequence of length n.
LEMMA SequenceIs ==
  ASSUME NEW n \in Nat, NEW f, f = [k \in 1..n |-> f[k]], NEW V, \A k \in 1..n : f[k] \in V
  PROVE  IsSequence(f, V, n)
<1>1. f \in [1..n -> V] /\ DOMAIN f = 1..n
  OBVIOUS
<1>2. f \in Seq(V) /\ Len(f) = n
  BY <1>1
<1> QED BY <1>1, <1>2 DEF IsSequence

\* Part g of a sequence that has so many.
IsChunk(c, s, V, g, size) ==
  /\ c \in Seq(V) /\ Len(c) = size
  /\ \A k \in 1..size : c[k] = s[(g - 1) * size + k]

\* Part g of a sequence of c parts has the elements of that part.
LEMMA ChunkIs ==
  ASSUME NEW V, NEW s \in Seq(V), NEW c \in Nat, NEW size \in Nat, Len(s) = c * size,
         NEW g \in 1..c
  PROVE  IsChunk(Chunk(s, g, size), s, V, g, size)
<1> DEFINE a == (g - 1) * size
           b == g * size
           t == SubSeq(s, a + 1, b)
<1>1. g \in Nat /\ g - 1 \in Nat /\ g <= c
  OBVIOUS
<1>2. a \in Nat /\ b \in Nat
  BY <1>1
<1>3. b = a + size
  BY <1>1
<1>4. b <= Len(s) /\ Len(s) \in Nat
  <2>1. b <= c * size
    BY <1>1, MultiplyMonotonic
  <2> QED BY <2>1
<1> HIDE DEF a, b
<1>5. t \in Seq(V) /\ Len(t) = size /\ \A k \in 1..size : t[k] = s[a + k]
  BY <1>2, <1>3, <1>4
<1>6. Chunk(s, g, size) = t
  BY DEF Chunk, a, b
<1> HIDE DEF t
<1> QED BY <1>5, <1>6 DEF IsChunk, a

\* Equal parts put together.
AreEqualParts(flat, parts, V, n, size) ==
  /\ flat \in Seq(V) /\ Len(flat) = n * size
  /\ \A g \in 1..n : \A k \in 1..size :
       /\ (g - 1) * size + k \in 1..(n * size)
       /\ flat[(g - 1) * size + k] = parts[g][k]

\* Parts of equal size put together keep their places.
LEMMA EqualParts ==
  ASSUME NEW V, NEW n \in Nat, NEW size \in Nat, NEW parts, DOMAIN parts = 1..n,
         parts \in Seq(Seq(V)), \A g \in 1..n : Len(parts[g]) = size
  PROVE  AreEqualParts(FlattenSeq(parts), parts, V, n, size)
<1> DEFINE flat == FlattenSeq(parts)
<1>0. Len(parts) = n
  OBVIOUS
<1>1. flat \in Seq(V) /\ \E B : PartOffsets(B, parts) /\ Joined(flat, parts, B)
  BY Flattened
<1>2. PICK B : PartOffsets(B, parts) /\ Joined(flat, parts, B)
  BY <1>1
<1>3. /\ B \in [0..n -> Nat] /\ B[0] = 0 /\ \A g \in 1..n : B[g] = B[g - 1] + size
      /\ Len(flat) = B[n] /\ \A g \in 1..n : \A k \in 1..size : flat[B[g - 1] + k] = parts[g][k]
  BY <1>0, <1>2 DEF PartOffsets, Joined
<1> HIDE DEF flat
<1> DEFINE T == {g \in 0..n : B[g] = g * size}
<1>4. 0 \in T
  BY <1>3
<1>5. ASSUME NEW g \in 0..(n - 1), g \in T PROVE g + 1 \in T
  <2>1. g + 1 \in 1..n /\ g + 1 \in 0..n /\ (g + 1) - 1 = g /\ B[g] = g * size
    BY <1>5
  <2>2. B[g + 1] = g * size + size
    BY <1>3, <2>1
  <2>3. (g + 1) * size = g * size + size
    OBVIOUS
  <2> QED BY <2>1, <2>2, <2>3
<1>6. \A g \in 0..n : g \in T
  <2> HIDE DEF T
  <2> QED BY <1>4, <1>5, InductionTo
<1>7. \A g \in 0..n : B[g] = g * size
  BY <1>6
<1>8. Len(flat) = n * size
  BY <1>3, <1>7
<1>9. ASSUME NEW g \in 1..n, NEW k \in 1..size
      PROVE  (g - 1) * size + k \in 1..(n * size) /\ flat[(g - 1) * size + k] = parts[g][k]
  <2>1. g - 1 \in 0..n /\ g - 1 \in Nat /\ g \in Nat /\ g <= n
    OBVIOUS
  <2>2. B[g - 1] = (g - 1) * size
    BY <1>7, <2>1
  <2> DEFINE a == (g - 1) * size
             b == n * size
             e == g * size
  <2>3. e = a + size /\ a \in Nat /\ b \in Nat /\ e \in Nat
    BY <2>1
  <2>4. e <= b
    BY <2>1, MultiplyMonotonic
  <2>5. flat[a + k] = parts[g][k]
    BY <1>3, <2>2
  <2> HIDE DEF a, b, e
  <2>6. a + k \in 1..b
    BY <2>3, <2>4
  <2> QED BY <2>5, <2>6 DEF a, b
<1> QED BY <1>1, <1>8, <1>9 DEF AreEqualParts, flat

\* The rows of a shard: its part of every global batch.
IsShardOf(r, order, V, s, c, size, gbs) ==
  /\ r \in Seq(V) /\ Len(r) = c * size
  /\ \A g \in 1..c : \A k \in 1..size :
       r[(g - 1) * size + k] = order[(g - 1) * gbs + ((s - 1) * size + k)]

\* Shard s gets its part of every global batch (ShardRows).
LEMMA ShardRowsAre ==
  ASSUME NEW V, NEW order \in Seq(V), NEW c \in Nat, NEW gbs \in Nat \ {0}, NEW shards \in Nat \ {0},
         NEW size \in Nat, gbs = shards * size, Len(order) = c * gbs
  PROVE  \A s \in 1..shards : IsShardOf(ShardRows(order, gbs, shards)[s], order, V, s, c, size, gbs)
<1>1. (c * gbs) \div gbs = c
  <2>1. 0 \in 0..(gbs - 1) /\ c * gbs \in Nat
    OBVIOUS
  <2>2. (c * gbs + 0) \div gbs = c
    BY ONLY <2>1, c \in Nat, gbs \in Nat \ {0}, DivisionOf
  <2> QED BY <2>1, <2>2
<1>2. gbs \div shards = size
  <2>1. 0 \in 0..(shards - 1) /\ size * shards \in Nat /\ shards * size = size * shards
    OBVIOUS
  <2>2. (size * shards + 0) \div shards = size
    BY ONLY <2>1, size \in Nat, shards \in Nat \ {0}, DivisionOf
  <2> QED BY <2>1, <2>2
<1>3. Len(order) \div gbs = c
  BY <1>1
<1> TAKE s \in 1..shards
<1> DEFINE parts == [g \in 1..c |-> Chunk(Chunk(order, g, gbs), s, size)]
           r == FlattenSeq(parts)
<1>4. ShardRows(order, gbs, shards)[s] = r
  BY <1>2, <1>3 DEF ShardRows
<1>5. ASSUME NEW g \in 1..c
      PROVE  /\ parts[g] \in Seq(V) /\ Len(parts[g]) = size
             /\ \A k \in 1..size : parts[g][k] = order[(g - 1) * gbs + ((s - 1) * size + k)]
  <2> DEFINE d == Chunk(order, g, gbs)
             e == Chunk(d, s, size)
  <2>1. IsChunk(d, order, V, g, gbs)
    BY ChunkIs
  <2>2. d \in Seq(V) /\ Len(d) = shards * size /\ \A j \in 1..gbs : d[j] = order[(g - 1) * gbs + j]
    BY <2>1 DEF IsChunk
  <2> HIDE DEF d
  <2>3. IsChunk(e, d, V, s, size)
    BY <2>2, ChunkIs
  <2>4. e \in Seq(V) /\ Len(e) = size /\ \A k \in 1..size : e[k] = d[(s - 1) * size + k]
    BY <2>3 DEF IsChunk
  <2>5. parts[g] = e
    BY DEF d
  <2> HIDE DEF e, parts
  <2>6. ASSUME NEW k \in 1..size PROVE (s - 1) * size + k \in 1..gbs
    <3> DEFINE a == (s - 1) * size
               b == s * size
    <3>1. s \in Nat /\ s - 1 \in Nat /\ s <= shards
      OBVIOUS
    <3>2. b = a + size /\ a \in Nat /\ b \in Nat
      BY <3>1
    <3>3. b <= gbs
      BY <3>1, MultiplyMonotonic
    <3> HIDE DEF a, b
    <3>4. a + k \in 1..gbs
      BY <3>2, <3>3
    <3> QED BY <3>4 DEF a
  <2>7. ASSUME NEW k \in 1..size PROVE e[k] = order[(g - 1) * gbs + ((s - 1) * size + k)]
    <3> DEFINE j == (s - 1) * size + k
    <3>1. j \in 1..gbs /\ e[k] = d[j]
      BY <2>4, <2>6
    <3> HIDE DEF j
    <3>2. e[k] = order[(g - 1) * gbs + j]
      BY <2>2, <3>1
    <3> QED BY <3>2 DEF j
  <2> QED BY <2>4, <2>5, <2>7
<1>6. parts \in Seq(Seq(V)) /\ DOMAIN parts = 1..c /\ \A g \in 1..c : Len(parts[g]) = size
  <2>1. parts = [g \in 1..c |-> parts[g]]
    OBVIOUS
  <2> DEFINE W == Seq(V)
  <2> HIDE DEF parts
  <2>2. \A g \in 1..c : parts[g] \in W /\ Len(parts[g]) = size
    BY <1>5
  <2> HIDE DEF W
  <2>3. IsSequence(parts, W, c)
    BY <2>1, <2>2, SequenceIs
  <2> QED BY <2>2, <2>3 DEF IsSequence, W
<1> HIDE DEF parts
<1>7. AreEqualParts(r, parts, V, c, size)
  BY <1>6, EqualParts
<1> HIDE DEF r
<1>8. r \in Seq(V) /\ Len(r) = c * size /\ \A g \in 1..c : \A k \in 1..size : r[(g - 1) * size + k] = parts[g][k]
  BY <1>7 DEF AreEqualParts
<1>9. ASSUME NEW g \in 1..c, NEW k \in 1..size
      PROVE  r[(g - 1) * size + k] = order[(g - 1) * gbs + ((s - 1) * size + k)]
  <2>1. r[(g - 1) * size + k] = parts[g][k]
    BY <1>8
  <2>2. parts[g][k] = order[(g - 1) * gbs + ((s - 1) * size + k)]
    BY <1>5
  <2> QED BY ONLY <2>1, <2>2
<1> QED BY <1>4, <1>8, <1>9 DEF IsShardOf

\* Dynamic batching orders the rows within the global batches.
OrdersRows(order, lens) == order \in Seq(1..Len(lens)) /\ Len(order) = Len(lens)

\* The order of dynamic batching is one of as many rows of the batch.
LEMMA DynamicOrderIs ==
  ASSUME NEW lens \in Seq(Nat), NEW c \in Nat, NEW gbs \in Nat \ {0}, NEW shards \in Nat \ {0},
         NEW size \in Nat, gbs = shards * size, Len(lens) = c * gbs
  PROVE  OrdersRows(DynamicOrder(lens, gbs, shards), lens)
<1> DEFINE I == 1..Len(lens)
           Part(g) == Strided(ShortestFirst(RowsOf(g, gbs), lens), shards)
           parts == [g \in 1..c |-> Part(g)]
<1>1. Len(lens) \div gbs = c
  <2>1. 0 \in 0..(gbs - 1) /\ c * gbs \in Nat
    OBVIOUS
  <2>2. (c * gbs + 0) \div gbs = c
    BY ONLY <2>1, c \in Nat, gbs \in Nat \ {0}, DivisionOf
  <2> QED BY <2>1, <2>2
<1>2. gbs \div shards = size
  <2>1. 0 \in 0..(shards - 1) /\ size * shards \in Nat /\ shards * size = size * shards
    OBVIOUS
  <2>2. (size * shards + 0) \div shards = size
    BY ONLY <2>1, size \in Nat, shards \in Nat \ {0}, DivisionOf
  <2> QED BY <2>1, <2>2
<1>3. DynamicOrder(lens, gbs, shards) = FlattenSeq(parts)
  BY <1>1 DEF DynamicOrder
<1>4. ASSUME NEW g \in 1..c
      PROVE  Part(g) \in Seq(I) /\ Len(Part(g)) = gbs
  <2> DEFINE S == RowsOf(g, gbs)
             seq == ShortestFirst(S, lens)
             a == (g - 1) * gbs
             b == g * gbs
             cuts == [s \in 1..shards |-> EverySo(seq, s, shards)]
  <2>1. g \in Nat /\ g - 1 \in Nat /\ g <= c
    OBVIOUS
  <2>2. a \in Nat /\ b \in Nat /\ b = a + gbs
    BY <2>1
  <2>3. b <= Len(lens)
    BY <2>1, MultiplyMonotonic
  <2>4. S = (a + 1)..b
    BY DEF RowsOf
  <2> HIDE DEF S, a, b
  <2>5. S \subseteq I /\ S \in SUBSET Int /\ Weighs(lens, S)
    <3>1. S \subseteq I /\ S \in SUBSET Int
      BY <2>2, <2>3, <2>4
    <3> QED BY <3>1 DEF Weighs
  <2>6. IsFiniteSet(S) /\ Cardinality(S) = gbs
    <3>1. a + 1 \in Int /\ b \in Int
      BY <2>2
    <3> DEFINE q == a + 1
    <3>2. q \in Int /\ b \in Int /\ ~ (q > b) /\ b - q + 1 = gbs
      BY <2>2
    <3>3. S = q..b
      BY <2>4
    <3> HIDE DEF q
    <3>4. Cardinality(q..b) = (IF q > b THEN 0 ELSE b - q + 1) /\ IsFiniteSet(q..b)
      BY ONLY <3>2, FS_Interval
    <3> QED BY <3>2, <3>3, <3>4
  <2>7. Lists(seq, S)
    BY <2>5, <2>6, ShortestFirstLists
  <2> HIDE DEF seq
  <2>8. Len(seq) = gbs /\ seq \in Seq(I)
    <3>1. Len(seq) = gbs
      BY <2>6, <2>7, ListsCount
    <3>2. seq \in Seq(S)
      BY <2>7 DEF Lists
    <3>3. S \subseteq I
      BY <2>5
    <3> HIDE DEF I
    <3>4. seq \in Seq(I)
      BY ONLY <3>2, <3>3
    <3> QED BY <3>1, <3>4
  <2>9. ASSUME NEW s \in 1..shards
        PROVE  cuts[s] \in Seq(I) /\ Len(cuts[s]) = size
    <3> DEFINE e == EverySo(seq, s, shards)
    <3>1. e = [k \in 1..size |-> seq[(k - 1) * shards + s]]
      BY <1>2, <2>8 DEF EverySo
    <3>2. ASSUME NEW k \in 1..size PROVE seq[(k - 1) * shards + s] \in I
      <4> DEFINE p == (k - 1) * shards
                 q == k * shards
      <4>1. k \in Nat /\ k - 1 \in Nat /\ k <= size
        OBVIOUS
      <4>2. p \in Nat /\ q \in Nat /\ q = p + shards
        BY <4>1
      <4>3. q <= size * shards /\ size * shards = gbs
        BY <4>1, MultiplyMonotonic
      <4>4. seq[p + s] \in I
        <5> HIDE DEF p, q, I
        <5>1. p + s \in 1..gbs
          BY <4>2, <4>3
        <5> QED BY <2>8, <5>1
      <4> QED BY <4>4
    <3> HIDE DEF e, I
    <3>3. e \in Seq(I) /\ Len(e) = size
      BY <3>1, <3>2
    <3>4. cuts[s] = e
      BY DEF e
    <3> QED BY <3>3, <3>4
  <2>10. cuts \in Seq(Seq(I)) /\ DOMAIN cuts = 1..shards /\ \A s \in 1..shards : Len(cuts[s]) = size
    <3>1. cuts = [s \in 1..shards |-> cuts[s]]
      OBVIOUS
    <3> DEFINE W == Seq(I)
    <3> HIDE DEF cuts
    <3>2. \A s \in 1..shards : cuts[s] \in W /\ Len(cuts[s]) = size
      BY <2>9
    <3> HIDE DEF W
    <3>3. IsSequence(cuts, W, shards)
      BY <3>1, <3>2, SequenceIs
    <3> QED BY <3>2, <3>3 DEF IsSequence, W
  <2>11. Part(g) = FlattenSeq(cuts)
    BY Zenon DEF Strided, seq, S
  <2> HIDE DEF cuts, I
  <2>12. AreEqualParts(FlattenSeq(cuts), cuts, I, shards, size)
    BY <2>10, EqualParts
  <2> QED BY <2>11, <2>12 DEF AreEqualParts
<1>5. parts \in Seq(Seq(I)) /\ DOMAIN parts = 1..c /\ \A g \in 1..c : Len(parts[g]) = gbs
  <2>1. parts = [g \in 1..c |-> parts[g]] /\ \A g \in 1..c : parts[g] = Part(g)
    OBVIOUS
  <2> DEFINE W == Seq(I)
  <2> HIDE DEF parts
  <2>2. \A g \in 1..c : parts[g] \in W /\ Len(parts[g]) = gbs
    BY <1>4, <2>1
  <2> HIDE DEF W
  <2>3. IsSequence(parts, W, c)
    BY <2>1, <2>2, SequenceIs
  <2> QED BY <2>2, <2>3 DEF IsSequence, W
<1> HIDE DEF parts, I
<1>6. AreEqualParts(FlattenSeq(parts), parts, I, c, gbs)
  BY <1>5, EqualParts
<1> QED BY <1>3, <1>6 DEF AreEqualParts, I, OrdersRows

-----------------------------------------------------------------------------
(* Microbatches by width *)

\* Padding makes a length no shorter.
LEMMA RoundUpIs ==
  ASSUME NEW len \in Nat, NEW m \in Nat \ {0}
  PROVE  RoundUp(len, m) \in Nat /\ RoundUp(len, m) >= len
<1> DEFINE a == (len + m) - 1
           q == a \div m
           r == a % m
           p == q * m
<1>1. a \in Nat /\ RoundUp(len, m) = p
  BY DEF RoundUp
<1>2. q \in Nat /\ r \in 0..(m - 1) /\ a = q * m + r
  <2>1. a \in Nat
    BY <1>1
  <2> HIDE DEF a
  <2> QED BY <2>1, Division
<1> HIDE DEF q, r
<1>3. p \in Nat /\ (len + m) - 1 = p + r
  BY <1>2
<1> HIDE DEF p
<1> QED BY <1>1, <1>2, <1>3

\* The width of a row: rounded up, but not beyond that of the batch.
Capped(lens, i, round) ==
  IF RoundUp(lens[i], round) < Widest(lens) THEN RoundUp(lens[i], round) ELSE Widest(lens)

\* The width of a position is that of one of the rows there.
ArePositions(w, size, budget) ==
  w \in Seq(Nat) /\ Len(w) = size /\ DOMAIN w = 1..size /\ \A k \in 1..size : w[k] <= budget

\* No position is wider than the budget when no rounded row is.
LEMMA PositionsAre ==
  ASSUME NEW lens \in Seq(Nat), NEW rows, NEW c \in Nat, NEW size \in Nat, NEW shards \in Nat \ {0},
         NEW round \in Nat \ {0}, NEW budget \in Nat, NEW g \in 1..c,
         \A s \in 1..shards : rows[s] \in Seq(1..Len(lens)) /\ Len(rows[s]) = c * size,
         \A i \in 1..Len(lens) : Capped(lens, i, round) <= budget
  PROVE  ArePositions(PositionWidths(rows, lens, g, size, shards, round), size, budget)
<1> DEFINE w == PositionWidths(rows, lens, g, size, shards, round)
           all == Widest(lens)
           x == (g - 1) * size
           d(k) == [s \in 1..shards |-> lens[rows[s][x + k]]]
           of(k) == IF RoundUp(Widest(d(k)), round) < all THEN RoundUp(Widest(d(k)), round) ELSE all
<1>1. w = [k \in 1..size |-> of(k)]
  BY DEF PositionWidths
<1>2. all \in Nat
  BY WidestIs DEF IsWidest
<1>3. ASSUME NEW k \in 1..size
      PROVE  of(k) \in Nat /\ of(k) <= budget
  <2>1. \A s \in 1..shards : rows[s][x + k] \in 1..Len(lens)
    <3> TAKE s \in 1..shards
    <3> DEFINE y == c * size
               z == g * size
    <3>1. g \in Nat /\ g - 1 \in Nat /\ g <= c
      OBVIOUS
    <3>2. x \in Nat /\ y \in Nat /\ z \in Nat /\ z = x + size
      BY <3>1
    <3>3. z <= y
      BY <3>1, MultiplyMonotonic
    <3> DEFINE r == rows[s]
               I == 1..Len(lens)
    <3>4. Len(r) = y /\ r \in Seq(I)
      OBVIOUS
    <3> HIDE DEF x, y, z, r, I
    <3>5. x + k \in 1..y
      BY <3>2, <3>3
    <3>6. r[x + k] \in I
      BY ONLY <3>4, <3>5, ElementOfSeq
    <3> QED BY <3>6 DEF r, I
  <2> DEFINE dk == d(k)
             v == Widest(dk)
  <2>2. \A s \in 1..shards : dk[s] = lens[rows[s][x + k]] /\ dk[s] \in Nat
    <3> TAKE s \in 1..shards
    <3> DEFINE i == rows[s][x + k]
    <3>1. i \in 1..Len(lens)
      BY <2>1
    <3>2. dk[s] = lens[i]
      OBVIOUS
    <3> HIDE DEF i, dk
    <3>3. lens[i] \in Nat
      BY <3>1
    <3> QED BY <3>2, <3>3 DEF i
  <2>3. dk = [s \in 1..shards |-> dk[s]]
    OBVIOUS
  <2>4. of(k) = IF RoundUp(v, round) < all THEN RoundUp(v, round) ELSE all
    OBVIOUS
  <2> HIDE DEF dk, of, d, x
  <2>5. dk \in Seq(Nat) /\ Len(dk) = shards
    <3>1. IsSequence(dk, Nat, shards)
      BY <2>2, <2>3, SequenceIs
    <3> QED BY <3>1 DEF IsSequence
  <2>6. IsWidest(v, dk)
    BY <2>5, WidestIs
  <2> HIDE DEF v
  <2>7. v \in Nat /\ (\A s \in 1..shards : dk[s] <= v) /\ (v = 0 \/ \E s \in 1..shards : v = dk[s])
    BY <2>5, <2>6 DEF IsWidest
  <2>8. \E s \in 1..shards : v = dk[s]
    <3>1. CASE v = 0
      <4>1. 1 \in 1..shards
        OBVIOUS
      <4>2. dk[1] <= 0 /\ dk[1] \in Nat
        BY <2>2, <2>7, <3>1, <4>1
      <4>3. dk[1] = v
        BY <3>1, <4>2
      <4> QED BY <4>1, <4>3
    <3> QED BY <2>7, <3>1
  <2>9. PICK s \in 1..shards : v = dk[s]
    BY <2>8
  <2> DEFINE i == rows[s][x + k]
  <2>10. i \in 1..Len(lens) /\ v = lens[i]
    BY <2>1, <2>2, <2>9
  <2> HIDE DEF i
  <2>11. of(k) = Capped(lens, i, round)
    BY <2>4, <2>10, Zenon DEF Capped, all
  <2>12. RoundUp(v, round) \in Nat
    BY <2>7, RoundUpIs
  <2>13. of(k) \in Nat
    BY <1>2, <2>4, <2>12
  <2> QED BY <2>10, <2>11, <2>13
<1> HIDE DEF w, of
<1>4. w = [k \in 1..size |-> w[k]] /\ \A k \in 1..size : w[k] \in Nat /\ w[k] <= budget
  BY <1>1, <1>3
<1>5. IsSequence(w, Nat, size)
  BY <1>4, SequenceIs
<1> QED BY <1>4, <1>5 DEF IsSequence, ArePositions, w

\* Microbatches and their widths: at least one.
AtLeastOne(V) == {s \in Seq(V) : Len(s) >= 1}
Cuts == [micro : AtLeastOne(Nat \X Nat), width : AtLeastOne(Nat)]

\* A position joins the last microbatch or opens one: there stays at least one.
LEMMA AddPositionType ==
  ASSUME NEW acc \in Cuts, NEW widths \in Seq(Nat), NEW k \in 1..Len(widths), NEW budget
  PROVE  AddPosition(acc, k, widths, budget) \in Cuts
<1> DEFINE P == Nat \X Nat
           m == acc.micro
           w == acc.width
<1>1. m \in AtLeastOne(P) /\ w \in AtLeastOne(Nat)
  BY DEF Cuts
<1> HIDE DEF P
<1>2. acc.micro = m /\ acc.width = w /\ m \in Seq(P) /\ w \in Seq(Nat) /\ Len(m) >= 1 /\ Len(w) >= 1
  BY <1>1 DEF AtLeastOne
<1> HIDE DEF m, w
<1>3. m # <<>> /\ w # <<>>
  BY <1>2
<1>4. Front(m) \in Seq(P) /\ Last(m) \in P
  BY <1>2, <1>3, FrontOf
<1>5. Front(w) \in Seq(Nat) /\ Last(w) \in Nat
  BY <1>2, <1>3, FrontOf
<1> DEFINE start == Last(m)[1]
           width == IF widths[k] > Last(w) THEN widths[k] ELSE Last(w)
           r == AddPosition(acc, k, widths, budget)
<1>6. start \in Nat /\ k \in Nat /\ k - 1 \in Nat /\ widths[k] \in Nat
  <2>1. k \in Nat /\ k - 1 \in Nat /\ widths[k] \in Nat
    OBVIOUS
  <2>2. start \in Nat
    BY <1>4 DEF P
  <2> QED BY <2>1, <2>2
<1>7. width \in Nat
  BY <1>5, <1>6
<1>8. \/ r = [micro |-> Append(Front(m), <<start, k>>), width |-> Append(Front(w), width)]
      \/ r = [micro |-> Append(m, <<k - 1, k>>), width |-> Append(w, widths[k])]
  BY <1>2, Zenon DEF AddPosition
<1> HIDE DEF start, width, r
<1>9. <<start, k>> \in P /\ <<k - 1, k>> \in P
  BY <1>6 DEF P
<1>10. ASSUME NEW s \in Seq(P), NEW x \in P, NEW t \in Seq(Nat), NEW y \in Nat
       PROVE  [micro |-> Append(s, x), width |-> Append(t, y)] \in Cuts
  <2>1. Append(s, x) \in AtLeastOne(P)
    BY DEF AtLeastOne
  <2>2. Append(t, y) \in AtLeastOne(Nat)
    BY DEF AtLeastOne
  <2> DEFINE a == Append(s, x)
             b == Append(t, y)
  <2> HIDE DEF a, b
  <2>3. a \in AtLeastOne(P) /\ b \in AtLeastOne(Nat)
    BY <2>1, <2>2 DEF a, b
  <2>4. [micro |-> a, width |-> b] \in Cuts
    BY <2>3 DEF Cuts, P
  <2> QED BY <2>4 DEF a, b
<1>11. CASE r = [micro |-> Append(Front(m), <<start, k>>), width |-> Append(Front(w), width)]
  BY ONLY <1>4, <1>5, <1>7, <1>9, <1>10, <1>11, Zenon DEF r
<1>12. CASE r = [micro |-> Append(m, <<k - 1, k>>), width |-> Append(w, widths[k])]
  BY ONLY <1>2, <1>6, <1>9, <1>10, <1>12, Zenon DEF r
<1> QED BY ONLY <1>8, <1>11, <1>12

\* There is always one.
LEMMA CutByWidthIs ==
  ASSUME NEW widths \in Seq(Nat), NEW budget
  PROVE  CutByWidth(widths, budget) \in Cuts
<1> DEFINE n == Len(widths)
           s == Indices(widths)
           base == [micro |-> << <<0, 0>> >>, width |-> <<0>>]
<1>1. n \in Nat /\ DOMAIN s = 1..n /\ \A k \in 1..n : s[k] = k
  BY DEF Indices
<1>2. base \in Cuts
  <2> DEFINE a == << <<0, 0>> >>
             b == <<0>>
  <2>1. a \in AtLeastOne(Nat \X Nat) /\ b \in AtLeastOne(Nat)
    BY DEF AtLeastOne
  <2> HIDE DEF a, b
  <2>2. [micro |-> a, width |-> b] \in Cuts
    BY <2>1 DEF Cuts
  <2> QED BY <2>2 DEF a, b
<1>3. \A a \in Cuts : \A k \in 1..n : AddPosition(a, s[k], widths, budget) \in Cuts
  BY <1>1, AddPositionType
<1> HIDE DEF n, base
<1>4. CutStepsIn(Cuts, n, base, s, widths, budget)
  <2>1. base = [micro |-> << <<0, 0>> >>, width |-> <<0>>] /\ s = Indices(widths)
    BY DEF base
  <2> HIDE DEF s
  <2> QED BY ONLY <1>1, <1>2, <1>3, <2>1, CutSteps
<1>5. PICK st \in [0..n -> Cuts] : CutByWidth(widths, budget) = st[n]
  BY <1>4, Zenon DEF CutStepsIn
<1> QED BY <1>1, <1>5

-----------------------------------------------------------------------------
(* Shards *)

\* Division without a remainder.
LEMMA Divides ==
  ASSUME NEW a \in Nat, NEW b \in Nat \ {0}, a % b = 0
  PROVE  a \div b \in Nat /\ a = (a \div b) * b
<1> DEFINE q == a \div b
           r == a % b
           p == q * b
<1>1. q \in Nat /\ a = q * b + r /\ r = 0
  BY Division
<1> HIDE DEF q, r
<1>2. p \in Nat /\ a = p + r
  BY <1>1
<1> HIDE DEF p
<1>3. a = p
  BY <1>1, <1>2
<1> QED BY <1>1, <1>3 DEF p, q

\* A record is not an error.
LEMMA RecordIsNoError ==
  ASSUME NEW a, NEW b
  PROVE  [shards |-> a, order |-> b] # Raised /\ [shards |-> a, order |-> b].shards = a
<1> DEFINE r == [shards |-> a, order |-> b]
<1>1. "shards" \in DOMAIN r
  OBVIOUS
<1>2. DOMAIN Raised = {}
  BY DEF Raised
<1> HIDE DEF r
<1>3. r # Raised
  BY <1>1, <1>2
<1>4. r.shards = a
  BY DEF r
<1> QED BY <1>3, <1>4 DEF r

\* The rows of all shards.
LEMMA RowsInAre ==
  ASSUME NEW n \in Nat, NEW parts, DOMAIN parts = 1..n, NEW B \in [0..n -> Nat], B[0] = 0,
         \A i \in 1..n : Len(parts[i].rows) \in Nat /\ B[i] = B[i - 1] + Len(parts[i].rows)
  PROVE  RowsIn(parts) = B[n]
<1>1. \A a \in Nat : \A i \in 1..n : a + Len(parts[i].rows) \in Nat
  OBVIOUS
<1>2. RowsInStepsIn(Nat, n, 0, parts, parts)
  BY ONLY <1>1, n \in Nat, DOMAIN parts = 1..n, 0 \in Nat, RowsInSteps
<1>3. PICK st \in [0..n -> Nat] :
        /\ st[0] = 0 /\ RowsIn(parts) = st[n]
        /\ \A k \in 1..n : st[k] = st[k - 1] + Len(parts[k].rows)
  BY <1>2, Zenon DEF RowsInStepsIn
<1> DEFINE T == {k \in 0..n : st[k] = B[k]}
<1>4. 0 \in T
  BY <1>3
<1>5. ASSUME NEW k \in 0..(n - 1), k \in T PROVE k + 1 \in T
  <2>1. k + 1 \in 1..n /\ k + 1 \in 0..n /\ (k + 1) - 1 = k
    OBVIOUS
  <2>2. st[k + 1] = st[k] + Len(parts[k + 1].rows) /\ B[k + 1] = B[k] + Len(parts[k + 1].rows)
    BY <1>3, <2>1
  <2> QED BY <1>5, <2>1, <2>2
<1>6. \A k \in 0..n : k \in T
  <2> HIDE DEF T
  <2> QED BY <1>4, <1>5, InductionTo
<1>7. n \in T
  BY <1>6
<1> QED BY <1>3, <1>7

\* Shards of equal size.
LEMMA EqualShards ==
  ASSUME NEW n \in Nat, NEW size \in Nat, NEW parts, DOMAIN parts = 1..n,
         \A i \in 1..n : Len(parts[i].rows) = size
  PROVE  RowsIn(parts) = n * size
<1> DEFINE B == [i \in 0..n |-> i * size]
<1>1. B \in [0..n -> Nat] /\ B[0] = 0 /\ B[n] = n * size
  OBVIOUS
<1>2. \A i \in 1..n : B[i] = B[i - 1] + size
  <2> TAKE i \in 1..n
  <2>1. i \in 0..n /\ i - 1 \in 0..n /\ i * size = (i - 1) * size + size
    OBVIOUS
  <2> QED BY <2>1
<1> HIDE DEF B
<1>3. \A i \in 1..n : Len(parts[i].rows) \in Nat /\ B[i] = B[i - 1] + Len(parts[i].rows)
  BY <1>2
<1>4. DOMAIN parts = 1..n /\ n \in Nat
  OBVIOUS
<1>5. RowsIn(parts) = B[n]
  BY ONLY <1>1, <1>3, <1>4, RowsInAre
<1> QED BY <1>1, <1>5

\* Shards without microbatches of their own.
ArePlain(parts, n, size) ==
  /\ DOMAIN parts = 1..n /\ Len(parts) = n /\ RowsIn(parts) \in Nat
  /\ \A s \in 1..n : parts[s].micro = <<>> /\ parts[s].elems = <<>> /\ Len(parts[s].rows) = size

\* A batch that divides evenly is cut into shards of equal size.
LEMMA ShardPlainIs ==
  ASSUME NEW lens \in Seq(Nat), NEW c \in Nat, NEW gbs \in Nat \ {0}, NEW shards \in Nat \ {0},
         NEW size \in Nat, gbs = shards * size, Len(lens) = c * gbs,
         Len(lens) % gbs = 0, gbs % shards = 0
  PROVE  /\ ShardPlain(lens, gbs, shards) # Raised
         /\ ArePlain(ShardPlain(lens, gbs, shards).shards, shards, c * size)
<1> DEFINE order == Indices(lens)
           I == 1..Len(lens)
           rows == ShardRows(order, gbs, shards)
           parts == [s \in 1..shards |-> Shard(rows[s], NoMicro)]
           r == ShardPlain(lens, gbs, shards)
           x == c * size
<1>1. order \in Seq(I) /\ Len(order) = c * gbs
  BY DEF Indices
<1>2. r = [shards |-> parts, order |-> order]
  BY DEF ShardPlain, CannotSplit
<1> HIDE DEF order
<1>3. \A s \in 1..shards : IsShardOf(rows[s], order, I, s, c, size, gbs)
  BY <1>1, ShardRowsAre
<1>4. \A s \in 1..shards : Len(rows[s]) = x
  BY <1>3 DEF IsShardOf
<1> HIDE DEF rows
<1>5. \A s \in 1..shards : /\ parts[s].micro = <<>> /\ parts[s].elems = <<>>
                           /\ parts[s].rows = rows[s]
  BY DEF Shard, NoMicro
<1>6. DOMAIN parts = 1..shards /\ Len(parts) = shards
  OBVIOUS
<1>7. x \in Nat
  OBVIOUS
<1> HIDE DEF parts, x
<1>8. RowsIn(parts) = shards * x
  <2>1. \A s \in 1..shards : Len(parts[s].rows) = x
    BY <1>4, <1>5
  <2>2. DOMAIN parts = 1..shards /\ shards \in Nat
    BY <1>6
  <2> QED BY ONLY <1>7, <2>1, <2>2, EqualShards
<1>9. ArePlain(parts, shards, x)
  <2>1. shards * x \in Nat
    BY <1>7
  <2>2. RowsIn(parts) \in Nat
    BY <1>8, <2>1
  <2>3. \A s \in 1..shards : Len(parts[s].rows) = x
    BY <1>4, <1>5
  <2> QED BY <1>5, <1>6, <2>2, <2>3, Zenon DEF ArePlain
<1>10. r # Raised
  BY <1>2, RecordIsNoError, Zenon
<1>11. r.shards = parts
  BY <1>2
<1> QED BY <1>9, <1>10, <1>11 DEF x

\* Shards with the microbatches of each of the c global batches.
AreCut(parts, n, c, total) ==
  /\ DOMAIN parts = 1..n /\ Len(parts) = n /\ RowsIn(parts) = total
  /\ \A s \in 1..n : /\ Len(parts[s].micro) = c
                     /\ \A g \in 1..c : Len(parts[s].micro[g]) \in Nat \ {0}

\* A batch that divides evenly and whose rounded rows are within the budget is
\* cut into shards that have microbatches for every global batch.
LEMMA ShardDynamicIs ==
  ASSUME NEW lens \in Seq(Nat), NEW c \in Nat, NEW gbs \in Nat \ {0}, NEW shards \in Nat \ {0},
         NEW size \in Nat, gbs = shards * size, Len(lens) = c * gbs,
         Len(lens) % gbs = 0, gbs % shards = 0,
         NEW budget \in Nat, NEW round \in Nat \ {0},
         \A i \in 1..Len(lens) : Capped(lens, i, round) <= budget
  PROVE  /\ ShardDynamic(lens, gbs, shards, budget, round) # Raised
         /\ AreCut(ShardDynamic(lens, gbs, shards, budget, round).shards, shards, c, c * gbs)
<1> DEFINE order == DynamicOrder(lens, gbs, shards)
           I == 1..Len(lens)
           rows == ShardRows(order, gbs, shards)
           x == c * size
           n == Len(lens) \div gbs
           each == gbs \div shards
           widths == [g \in 1..n |-> PositionWidths(rows, lens, g, each, shards, round)]
           cuts == [g \in 1..Len(widths) |-> CutByWidth(widths[g], budget)]
           cut == [micro |-> [g \in 1..Len(cuts) |-> cuts[g].micro],
                   width |-> [g \in 1..Len(cuts) |-> cuts[g].width],
                   elems |-> <<>>]
           parts == [s \in 1..shards |-> Shard(rows[s], cut)]
           r == ShardDynamic(lens, gbs, shards, budget, round)
<1>0. n = c /\ each = size
  <2>1. 0 \in 0..(gbs - 1) /\ c * gbs \in Nat /\ 0 \in 0..(shards - 1) /\ size * shards \in Nat
        /\ shards * size = size * shards
    OBVIOUS
  <2>2. (c * gbs + 0) \div gbs = c
    BY ONLY <2>1, c \in Nat, gbs \in Nat \ {0}, DivisionOf
  <2>3. (size * shards + 0) \div shards = size
    BY ONLY <2>1, size \in Nat, shards \in Nat \ {0}, DivisionOf
  <2> QED BY <2>1, <2>2, <2>3
<1>1. order \in Seq(I) /\ Len(order) = c * gbs
  <2>1. OrdersRows(order, lens)
    BY DynamicOrderIs
  <2> QED BY <2>1 DEF OrdersRows
<1>2. r = IF \E g \in 1..Len(widths) : Widest(widths[g]) > budget THEN Raised
          ELSE [shards |-> parts, order |-> order]
  <2>1. ~ CannotSplit(lens, gbs, shards)
    BY DEF CannotSplit
  <2> QED BY <2>1, Zenon DEF ShardDynamic
<1> HIDE DEF order, n, each
<1>3. \A s \in 1..shards : IsShardOf(rows[s], order, I, s, c, size, gbs)
  BY <1>1, ShardRowsAre
<1>4. \A s \in 1..shards : rows[s] \in Seq(I) /\ Len(rows[s]) = x
  BY <1>3 DEF IsShardOf
<1> HIDE DEF rows
<1>5. ASSUME NEW g \in 1..c PROVE ArePositions(widths[g], size, budget)
  <2>1. \A s \in 1..shards : rows[s] \in Seq(1..Len(lens)) /\ Len(rows[s]) = c * size
    BY <1>4
  <2>2. ArePositions(PositionWidths(rows, lens, g, size, shards, round), size, budget)
    BY <2>1, PositionsAre
  <2>3. widths[g] = PositionWidths(rows, lens, g, size, shards, round)
    BY <1>0
  <2> QED BY <2>2, <2>3
<1>6. Len(widths) = c
  BY <1>0
<1> HIDE DEF widths
<1>7. ASSUME NEW g \in 1..Len(widths) PROVE ~ (Widest(widths[g]) > budget)
  <2> DEFINE w == widths[g]
             v == Widest(w)
  <2>1. w \in Seq(Nat) /\ Len(w) = size /\ \A k \in 1..size : w[k] <= budget
    BY <1>5, <1>6 DEF ArePositions
  <2> HIDE DEF w
  <2>2. IsWidest(v, w)
    BY <2>1, WidestIs
  <2> HIDE DEF v
  <2>3. v \in Nat /\ v <= budget
    BY <2>1, <2>2 DEF IsWidest
  <2>4. ~ (v > budget)
    BY <2>3
  <2> QED BY <2>4 DEF v, w
<1>8. r = [shards |-> parts, order |-> order]
  BY <1>2, <1>7
<1>9. r.shards = parts /\ r # Raised
  BY <1>8, RecordIsNoError, Zenon
<1> HIDE DEF r
<1>10. ASSUME NEW g \in 1..c PROVE cuts[g] \in Cuts
  <2>1. widths[g] \in Seq(Nat)
    BY <1>5 DEF ArePositions
  <2>2. CutByWidth(widths[g], budget) \in Cuts
    BY <2>1, CutByWidthIs
  <2>3. cuts[g] = CutByWidth(widths[g], budget)
    BY <1>6
  <2> QED BY <2>2, <2>3
<1>11. Len(cuts) = c
  BY <1>6
<1> HIDE DEF cuts
<1>12. cut.micro = [g \in 1..c |-> cuts[g].micro] /\ Len(cut.micro) = c
  BY <1>11
<1> HIDE DEF cut
<1>13. ASSUME NEW g \in 1..c PROVE Len(cut.micro[g]) \in Nat \ {0}
  <2> DEFINE m == cuts[g].micro
  <2>1. m \in AtLeastOne(Nat \X Nat)
    BY <1>10 DEF Cuts
  <2>2. cut.micro[g] = m
    BY <1>12
  <2> HIDE DEF m
  <2> QED BY <2>1, <2>2 DEF AtLeastOne
<1>14. \A s \in 1..shards : parts[s].micro = cut.micro /\ parts[s].rows = rows[s]
  BY DEF Shard
<1>15. DOMAIN parts = 1..shards /\ Len(parts) = shards
  OBVIOUS
<1>16. x \in Nat
  OBVIOUS
<1>17. shards * x = c * gbs
  BY Multiply
<1> HIDE DEF parts, x
<1>18. RowsIn(parts) = c * gbs
  <2>1. \A s \in 1..shards : Len(parts[s].rows) = x
    BY <1>4, <1>14
  <2>2. RowsIn(parts) = shards * x
    BY ONLY <1>15, <1>16, <2>1, shards \in Nat \ {0}, EqualShards
  <2> QED BY <1>17, <2>2
<1> DEFINE total == c * gbs
<1> HIDE DEF total
<1>19. AreCut(parts, shards, c, total)
  BY <1>12, <1>13, <1>14, <1>15, <1>18 DEF AreCut, total
<1> QED BY <1>9, <1>19 DEF r, total

-----------------------------------------------------------------------------
(* Dealing bins to shards *)

\* Bin k of shard s, and how many of L bins it gets.
At(k, s, shards) == (k - 1) * shards + s
Share(L, s, shards) == (L + shards - s) \div shards

\* A shard gets bins there are.
LEMMA ShareIs ==
  ASSUME NEW L \in Nat, NEW shards \in Nat \ {0}, NEW s \in 1..shards
  PROVE  /\ Share(L, s, shards) \in Nat /\ (L >= shards => Share(L, s, shards) >= 1)
         /\ \A k \in Nat : k <= Share(L, s, shards) <=> k * shards <= (L + shards) - s
<1> DEFINE a == (L + shards) - s
           m == a \div shards
           r == a % shards
           p == m * shards
<1>1. a \in Nat /\ Share(L, s, shards) = m
  BY DEF Share
<1>2. m \in Nat /\ r \in 0..(shards - 1) /\ a = m * shards + r
  <2> HIDE DEF a
  <2> QED BY <1>1, Division
<1> HIDE DEF m, r
<1>3. p \in Nat /\ a = p + r
  BY <1>2
<1> HIDE DEF p
<1>4. ASSUME NEW k \in Nat PROVE k <= m <=> k * shards <= a
  <2>1. k * shards \in Nat
    OBVIOUS
  <2>2. CASE k <= m
    <3>1. k * shards <= p
      BY <1>2, <2>2, MultiplyMonotonic DEF p
    <3> HIDE DEF a
    <3> QED BY <1>1, <1>2, <1>3, <2>1, <2>2, <3>1
  <2>3. CASE ~ (k <= m)
    <3>1. m + 1 <= k /\ m + 1 \in Nat
      BY <1>2, <2>3
    <3>2. (m + 1) * shards <= k * shards
      BY <3>1, MultiplyMonotonic
    <3>3. (m + 1) * shards = m * shards + shards
      BY <1>2
    <3>4. p + shards <= k * shards
      BY <3>2, <3>3 DEF p
    <3> HIDE DEF a
    <3> QED BY <1>1, <1>2, <1>3, <2>1, <2>3, <3>4
  <2> QED BY <2>2, <2>3
<1>5. L >= shards => m >= 1
  <2> SUFFICES ASSUME L >= shards PROVE 1 <= m
    BY <1>2
  <2>1. 1 * shards <= a
    OBVIOUS
  <2> QED BY <1>4, <2>1
<1> QED BY <1>1, <1>2, <1>4, <1>5

\* The k-th bin of a shard is one of the bins.
LEMMA AtIsABin ==
  ASSUME NEW L \in Nat, NEW shards \in Nat \ {0}, NEW s \in 1..shards, NEW k \in 1..Share(L, s, shards)
  PROVE  At(k, s, shards) \in 1..L
<1>1. Share(L, s, shards) \in Nat
  BY ShareIs
<1>2. k \in Nat /\ k - 1 \in Nat /\ k <= Share(L, s, shards)
  BY <1>1
<1>3. k * shards <= (L + shards) - s
  BY <1>2, ShareIs
<1> DEFINE a == (k - 1) * shards
<1>4. a \in Nat /\ k * shards = a + shards
  BY <1>2
<1> HIDE DEF a
<1>5. a + s \in 1..L
  BY <1>3, <1>4
<1> QED BY <1>5 DEF At, a

\* Each bin goes to one shard.
IsDealt(b, L, shards) ==
  \E s \in 1..shards : \E k \in 1..Share(L, s, shards) : b = At(k, s, shards)

\* Every bin is the k-th of some shard.
LEMMA EveryBinIsDealt ==
  ASSUME NEW L \in Nat, NEW shards \in Nat \ {0}, NEW b \in 1..L
  PROVE  IsDealt(b, L, shards)
<1> DEFINE q == (b - 1) \div shards
           r == (b - 1) % shards
           k == q + 1
           s == r + 1
<1>1. q \in Nat /\ r \in 0..(shards - 1) /\ b - 1 = q * shards + r
  <2>1. b - 1 \in Nat
    OBVIOUS
  <2> QED BY <2>1, Division
<1> HIDE DEF q, r
<1>2. s \in 1..shards /\ k \in Nat /\ k >= 1 /\ k - 1 = q
  BY <1>1
<1>3. k * shards = q * shards + shards /\ q * shards \in Nat
  BY <1>1
<1>4. b = At(k, s, shards)
  BY <1>1, <1>2, <1>3 DEF At
<1>5. k * shards <= (L + shards) - s
  BY <1>1, <1>2, <1>3
<1> HIDE DEF k, s
<1>6. k <= Share(L, s, shards) /\ Share(L, s, shards) \in Nat
  BY <1>2, <1>5, ShareIs
<1>7. k \in 1..Share(L, s, shards)
  BY <1>2, <1>6
<1> QED BY <1>2, <1>4, <1>7 DEF IsDealt

\* No bin is dealt twice.
LEMMA DealtOnce ==
  ASSUME NEW shards \in Nat \ {0}, NEW s \in 1..shards, NEW t \in 1..shards,
         NEW k \in Nat \ {0}, NEW l \in Nat \ {0}, At(k, s, shards) = At(l, t, shards)
  PROVE  s = t /\ k = l
<1> DEFINE a == k - 1
           b == l - 1
           c == s - 1
           d == t - 1
<1>1. a \in Nat /\ b \in Nat /\ c \in 0..(shards - 1) /\ d \in 0..(shards - 1)
  OBVIOUS
<1>2. a * shards + c = b * shards + d
  <2>1. a * shards \in Nat /\ b * shards \in Nat
    BY <1>1
  <2>2. a * shards + s = b * shards + t
    BY DEF At
  <2> DEFINE x == a * shards
             y == b * shards
  <2>3. x \in Nat /\ y \in Nat /\ x + s = y + t
    BY <2>1, <2>2
  <2> HIDE DEF x, y
  <2>4. x + c = y + d
    BY <2>3
  <2> QED BY <2>4 DEF x, y
<1> HIDE DEF a, b, c, d
<1>3. (a * shards + c) \div shards = a /\ (a * shards + c) % shards = c
  BY <1>1, DivisionOf
<1>4. (b * shards + d) \div shards = b /\ (b * shards + d) % shards = d
  BY <1>1, DivisionOf
<1>5. a = b /\ c = d
  BY ONLY <1>2, <1>3, <1>4
<1> QED BY <1>5 DEF a, b, c, d

\* The bins of a shard.
AreBinsOf(r, bins, s, shards, V) ==
  /\ r \in Seq(V) /\ Len(r) = Share(Len(bins), s, shards)
  /\ \A k \in 1..Share(Len(bins), s, shards) :
       At(k, s, shards) \in 1..Len(bins) /\ r[k] = bins[At(k, s, shards)]

\* BinsOf takes the bins of a shard, in order.
LEMMA BinsOfAre ==
  ASSUME NEW V, NEW bins \in Seq(V), NEW shards \in Nat \ {0}, NEW s \in 1..shards
  PROVE  AreBinsOf(BinsOf(bins, s, shards), bins, s, shards, V)
<1> DEFINE L == Len(bins)
           m == Share(L, s, shards)
           r == BinsOf(bins, s, shards)
<1>1. L \in Nat /\ \A b \in 1..L : bins[b] \in V
  OBVIOUS
<1>2. r = [k \in 1..m |-> bins[At(k, s, shards)]]
  BY DEF BinsOf, Share, At
<1> HIDE DEF L, m, r
<1>3. m \in Nat
  BY <1>1, ShareIs DEF m
<1>4. \A k \in 1..m : At(k, s, shards) \in 1..L
  BY <1>1, AtIsABin DEF m
<1>5. r = [k \in 1..m |-> r[k]] /\ \A k \in 1..m : r[k] = bins[At(k, s, shards)] /\ r[k] \in V
  BY <1>1, <1>2, <1>4
<1>6. IsSequence(r, V, m)
  BY <1>3, <1>5, SequenceIs
<1> QED BY <1>4, <1>5, <1>6 DEF AreBinsOf, IsSequence, L, m, r

\* What the shards get: each bin once.
PartOf(A, L, s, shards) == UNION {A[At(k, s, shards)] : k \in 1..Share(L, s, shards)}
AreParted(bins, A, S, shards) ==
  /\ \A s \in 1..shards : /\ PartOf(A, Len(bins), s, shards) \subseteq S
                          /\ Deals(BinsOf(bins, s, shards), PartOf(A, Len(bins), s, shards))
  /\ \A s, t \in 1..shards :
       s # t => PartOf(A, Len(bins), s, shards) \cap PartOf(A, Len(bins), t, shards) = {}
  /\ \A x \in S : \E s \in 1..shards : x \in PartOf(A, Len(bins), s, shards)

\* Dealing the bins to the shards deals their rows, each to one shard.
LEMMA PartsAreDealt ==
  ASSUME NEW bins, NEW A, NEW S, DealsAs(bins, A, S), NEW shards \in Nat \ {0}
  PROVE  AreParted(bins, A, S, shards)
<1> DEFINE L == Len(bins)
           m(s) == Share(L, s, shards)
           T(s) == PartOf(A, L, s, shards)
           V == Seq(S)
<1>1. Dealt(bins, A, S, L)
  BY DealsOpen
<1>2. /\ L \in Nat /\ bins \in Seq(V)
      /\ \A b \in 1..L : Lists(bins[b], A[b]) /\ A[b] \subseteq S
      /\ \A b, c \in 1..L : b # c => A[b] \cap A[c] = {}
      /\ \A x \in S : \E b \in 1..L : x \in A[b]
  BY <1>1, Zenon DEF Dealt
<1>3. L = Len(bins)
  OBVIOUS
<1> HIDE DEF L, V
<1>4. \A s \in 1..shards : m(s) \in Nat /\ \A k \in 1..m(s) : At(k, s, shards) \in 1..L
  BY <1>2, ShareIs, AtIsABin
<1>5. \A s \in 1..shards : \A x : x \in T(s) <=> \E k \in 1..m(s) : x \in A[At(k, s, shards)]
  BY DEF PartOf
<1> HIDE DEF T, m
<1>6. ASSUME NEW s \in 1..shards PROVE T(s) \subseteq S
  BY <1>2, <1>4, <1>5
<1>7. ASSUME NEW s \in 1..shards, NEW k \in 1..m(s), NEW t \in 1..shards, NEW l \in 1..m(t),
             At(k, s, shards) = At(l, t, shards)
      PROVE  s = t /\ k = l
  <2>1. k \in Nat \ {0} /\ l \in Nat \ {0}
    BY <1>4
  <2> QED BY <1>7, <2>1, DealtOnce
<1>8. ASSUME NEW s \in 1..shards PROVE Deals(BinsOf(bins, s, shards), T(s))
  <2> DEFINE r == BinsOf(bins, s, shards)
             n == m(s)
             B == [k \in 1..n |-> A[At(k, s, shards)]]
  <2>1. AreBinsOf(r, bins, s, shards, V)
    BY <1>2, BinsOfAre
  <2>2. r \in Seq(V) /\ Len(r) = n /\ \A k \in 1..n : r[k] = bins[At(k, s, shards)]
    BY <1>3, <2>1, Zenon DEF AreBinsOf, m
  <2>3. \A k \in 1..n : At(k, s, shards) \in 1..L /\ B[k] = A[At(k, s, shards)]
    BY <1>4
  <2> HIDE DEF r, n, B
  <2>4. \A k \in 1..n : Lists(r[k], B[k]) /\ B[k] \subseteq T(s)
    <3> TAKE k \in 1..n
    <3> DEFINE b == At(k, s, shards)
    <3>1. b \in 1..L /\ r[k] = bins[b] /\ B[k] = A[b]
      BY <2>2, <2>3
    <3>2. B[k] \subseteq T(s)
      BY <1>5, <3>1 DEF n
    <3> HIDE DEF b
    <3>3. Lists(bins[b], A[b])
      BY <1>2, <3>1
    <3> QED BY <3>1, <3>2, <3>3, Zenon
  <2>5. \A k, l \in 1..n : k # l => B[k] \cap B[l] = {}
    <3> TAKE k, l \in 1..n
    <3> HAVE k # l
    <3> DEFINE b == At(k, s, shards)
               c == At(l, s, shards)
    <3>1. b # c
      BY <1>7 DEF n
    <3>2. b \in 1..L /\ B[k] = A[b] /\ c \in 1..L /\ B[l] = A[c]
      BY <2>3
    <3> HIDE DEF b, c
    <3>3. A[b] \cap A[c] = {}
      BY <1>2, <3>1, <3>2
    <3> QED BY <3>2, <3>3, Zenon
  <2>6. \A x \in T(s) : \E k \in 1..n : x \in B[k]
    <3> TAKE x \in T(s)
    <3>1. PICK k \in 1..n : x \in A[At(k, s, shards)]
      BY <1>5 DEF n
    <3> QED BY <2>3, <3>1, Zenon
  <2>7. Deals(r, T(s))
    <3>1. n = Len(r)
      BY <2>2
    <3> QED BY ONLY <2>2, <2>4, <2>5, <2>6, <3>1, DealsClose
  <2> QED BY <2>7 DEF r
<1>9. ASSUME NEW s \in 1..shards, NEW t \in 1..shards, s # t PROVE T(s) \cap T(t) = {}
  <2> SUFFICES ASSUME NEW x, x \in T(s), x \in T(t) PROVE FALSE
    OBVIOUS
  <2>1. PICK k \in 1..m(s) : x \in A[At(k, s, shards)]
    BY <1>5
  <2>2. PICK l \in 1..m(t) : x \in A[At(l, t, shards)]
    BY <1>5
  <2> DEFINE b == At(k, s, shards)
             c == At(l, t, shards)
  <2>3. b # c
    BY <1>7, <1>9
  <2>4. b \in 1..L /\ c \in 1..L /\ x \in A[b] /\ x \in A[c]
    BY <1>4, <2>1, <2>2
  <2> HIDE DEF b, c
  <2> QED BY <1>2, <2>3, <2>4
<1>10. ASSUME NEW x \in S PROVE \E s \in 1..shards : x \in T(s)
  <2>1. PICK b \in 1..L : x \in A[b]
    BY <1>2
  <2>2. PICK s \in 1..shards : \E k \in 1..m(s) : b = At(k, s, shards)
    <3>1. IsDealt(b, L, shards)
      BY <1>2, EveryBinIsDealt
    <3> QED BY <3>1, Zenon DEF IsDealt, m
  <2>3. x \in T(s)
    BY <1>5, <2>1, <2>2
  <2> QED BY <2>3
<1> QED BY <1>6, <1>8, <1>9, <1>10, Zenon DEF AreParted, T, L

\* Bins of other numbers.
LEMMA ShiftedDeals ==
  ASSUME NEW bins, NEW n \in Nat, Deals(bins, 1..n), NEW before \in Nat
  PROVE  /\ Deals(Shifted(bins, before), (before + 1)..(before + n))
         /\ Len(Shifted(bins, before)) = Len(bins)
<1> DEFINE L == Len(bins)
           S == 1..n
           W == (before + 1)..(before + n)
           V == Seq(S)
           r == Shifted(bins, before)
<1>1. PICK A : DealsAs(bins, A, S)
  BY DEF Deals
<1>2. Dealt(bins, A, S, L)
  BY <1>1, DealsOpen
<1>3. /\ L \in Nat /\ bins \in Seq(V)
      /\ \A b \in 1..L : Lists(bins[b], A[b]) /\ A[b] \subseteq S
      /\ \A b, c \in 1..L : b # c => A[b] \cap A[c] = {}
      /\ \A x \in S : \E b \in 1..L : x \in A[b]
  BY <1>2, Zenon DEF Dealt
<1> DEFINE B == [b \in 1..L |-> {before + x : x \in A[b]}]
<1>4. ASSUME NEW b \in 1..L
      PROVE  r[b] \in Seq(W) /\ Lists(r[b], B[b]) /\ B[b] \subseteq W
  <2> DEFINE s == bins[b]
             m == Len(s)
             t == r[b]
             T == B[b]
  <2>1. t = [k \in 1..m |-> before + s[k]]
    BY DEF Shifted
  <2>2. T = {before + x : x \in A[b]}
    OBVIOUS
  <2>3. Lists(s, A[b]) /\ A[b] \subseteq S
    BY <1>3
  <2> HIDE DEF s, t, T, B, r
  <2>4. Listed(s, A[b], m)
    BY <2>3, ListsOpen
  <2>5. /\ m \in Nat /\ \A k, l \in 1..m : s[k] = s[l] => k = l
        /\ \A x \in A[b] : \E k \in 1..m : s[k] = x
        /\ \A k \in 1..m : s[k] \in A[b]
    BY <2>4, Zenon DEF Listed
  <2> HIDE DEF m
  <2>6. \A k \in 1..m : t[k] = before + s[k] /\ t[k] \in T /\ s[k] \in 1..n
    BY <2>1, <2>2, <2>3, <2>5
  <2>7. T \subseteq W
    <3> SUFFICES ASSUME NEW y \in T PROVE y \in W
      OBVIOUS
    <3>1. PICK x \in A[b] : y = before + x
      BY <2>2
    <3>2. x \in 1..n
      BY <2>3, <3>1
    <3> QED BY <3>1, <3>2
  <2>8. t = [k \in 1..m |-> t[k]]
    BY <2>1
  <2>9. IsSequence(t, T, m)
    BY <2>5, <2>6, <2>8, SequenceIs
  <2>10. t \in Seq(T) /\ Len(t) = m
    BY <2>9 DEF IsSequence
  <2>11. \A k, l \in 1..m : t[k] = t[l] => k = l
    <3> TAKE k, l \in 1..m
    <3> HAVE t[k] = t[l]
    <3> DEFINE x == s[k]
               y == s[l]
    <3>1. x \in 1..n /\ y \in 1..n /\ before + x = before + y
      BY <2>6
    <3> HIDE DEF x, y
    <3>2. x = y
      BY <3>1
    <3> QED BY <2>5, <3>2 DEF x, y
  <2>12. \A y \in T : \E k \in 1..m : t[k] = y
    <3> TAKE y \in T
    <3>1. PICK x \in A[b] : y = before + x
      BY <2>2
    <3>2. PICK k \in 1..m : s[k] = x
      BY <2>5
    <3> QED BY <2>6, <3>1, <3>2
  <2>13. Lists(t, T)
    BY <2>10, <2>11, <2>12 DEF Lists
  <2>14. t \in Seq(W)
    <3> HIDE DEF W
    <3> QED BY ONLY <2>7, <2>10
  <2> QED BY <2>7, <2>13, <2>14 DEF t, T
<1>5. r = [b \in 1..L |-> r[b]]
  BY DEF Shifted
<1>6. \A b, c \in 1..L : b # c => B[b] \cap B[c] = {}
  <2> TAKE b, c \in 1..L
  <2> HAVE b # c
  <2> SUFFICES ASSUME NEW y, y \in B[b], y \in B[c] PROVE FALSE
    OBVIOUS
  <2>1. PICK u \in A[b] : y = before + u
    OBVIOUS
  <2>2. PICK v \in A[c] : y = before + v
    OBVIOUS
  <2>3. u \in 1..n /\ v \in 1..n
    BY <1>3, <2>1, <2>2
  <2>4. u = v
    BY <2>1, <2>2, <2>3
  <2> QED BY <1>3, <2>1, <2>2, <2>4
<1>7. \A y \in W : \E b \in 1..L : y \in B[b]
  <2> TAKE y \in W
  <2> DEFINE x == y - before
  <2>1. x \in S /\ y = before + x
    OBVIOUS
  <2> HIDE DEF x
  <2>2. PICK b \in 1..L : x \in A[b]
    BY <1>3, <2>1
  <2>3. y \in B[b]
    BY <2>1, <2>2
  <2> QED BY <2>3
<1> HIDE DEF B, r
<1> DEFINE X == Seq(W)
<1>8. \A b \in 1..L : r[b] \in X
  BY <1>4
<1> HIDE DEF X
<1>9. IsSequence(r, X, L)
  BY <1>3, <1>5, <1>8, SequenceIs
<1>10. r \in Seq(X) /\ Len(r) = L
  BY <1>9 DEF IsSequence
<1> HIDE DEF L, W
<1>11. L = Len(r) /\ \A b \in 1..L : Lists(r[b], B[b]) /\ B[b] \subseteq W
  BY <1>4, <1>10
<1>12. Deals(r, W)
  BY ONLY <1>6, <1>7, <1>10, <1>11, DealsClose
<1> QED BY <1>10, <1>12 DEF W, L, r

\* The global batches divide the rows.
RowsDivided(c, gbs) ==
  /\ \A g \in 1..c : RowsOf(g, gbs) \subseteq 1..(c * gbs)
  /\ \A g, h \in 1..c : g # h => RowsOf(g, gbs) \cap RowsOf(h, gbs) = {}
  /\ \A x \in 1..(c * gbs) : \E g \in 1..c : x \in RowsOf(g, gbs)

\* Every row of the batch is in one global batch.
LEMMA RowsAreDivided == ASSUME NEW c \in Nat, NEW gbs \in Nat \ {0} PROVE RowsDivided(c, gbs)
<1> DEFINE total == c * gbs
<1>1. total \in Nat
  OBVIOUS
<1>2. ASSUME NEW g \in 1..c, NEW x
      PROVE  x \in RowsOf(g, gbs) <=> \E s \in 1..gbs : x = At(g, s, gbs)
  <2> DEFINE a == (g - 1) * gbs
  <2>1. a \in Nat /\ g * gbs = a + gbs
    OBVIOUS
  <2>2. RowsOf(g, gbs) = (a + 1)..(a + gbs)
    BY <2>1 DEF RowsOf
  <2>3. \A s \in 1..gbs : At(g, s, gbs) = a + s
    BY DEF At
  <2> HIDE DEF a
  <2>4. ASSUME x \in RowsOf(g, gbs) PROVE \E s \in 1..gbs : x = At(g, s, gbs)
    <3> DEFINE s == x - a
    <3>1. s \in 1..gbs /\ x = a + s
      BY <2>1, <2>2, <2>4
    <3> HIDE DEF s
    <3> QED BY <2>3, <3>1
  <2>5. ASSUME NEW s \in 1..gbs, x = At(g, s, gbs) PROVE x \in RowsOf(g, gbs)
    <3>1. x = a + s
      BY <2>3, <2>5
    <3> QED BY <2>1, <2>2, <3>1
  <2> QED BY <2>4, <2>5
<1>3. ASSUME NEW g \in 1..c PROVE RowsOf(g, gbs) \subseteq 1..total
  <2> DEFINE a == (g - 1) * gbs
             b == g * gbs
  <2>1. a \in Nat /\ b \in Nat /\ g \in Nat /\ g <= c
    OBVIOUS
  <2>2. b <= total
    BY <2>1, MultiplyMonotonic
  <2>3. RowsOf(g, gbs) = (a + 1)..b
    BY DEF RowsOf
  <2> HIDE DEF a, b, total
  <2> QED BY <1>1, <2>1, <2>2, <2>3
<1>4. ASSUME NEW g \in 1..c, NEW h \in 1..c, g # h PROVE RowsOf(g, gbs) \cap RowsOf(h, gbs) = {}
  <2> SUFFICES ASSUME NEW x, x \in RowsOf(g, gbs), x \in RowsOf(h, gbs) PROVE FALSE
    OBVIOUS
  <2>1. PICK s \in 1..gbs : x = At(g, s, gbs)
    BY <1>2
  <2>2. PICK t \in 1..gbs : x = At(h, t, gbs)
    BY <1>2
  <2>3. g \in Nat \ {0} /\ h \in Nat \ {0} /\ At(g, s, gbs) = At(h, t, gbs)
    BY <2>1, <2>2
  <2>4. g = h
    BY <2>3, DealtOnce
  <2> QED BY <1>4, <2>4
<1>5. ASSUME NEW x \in 1..total PROVE \E g \in 1..c : x \in RowsOf(g, gbs)
  <2>1. IsDealt(x, total, gbs)
    <3> HIDE DEF total
    <3> QED BY <1>1, EveryBinIsDealt
  <2>2. PICK s \in 1..gbs : \E k \in 1..Share(total, s, gbs) : x = At(k, s, gbs)
    BY <2>1, Zenon DEF IsDealt
  <2>3. PICK k \in 1..Share(total, s, gbs) : x = At(k, s, gbs)
    BY <2>2
  <2>4. Share(total, s, gbs) \in Nat
    BY <1>1, ShareIs
  <2>5. k \in Nat /\ k >= 1 /\ k <= Share(total, s, gbs)
    BY <2>4
  <2>6. k * gbs <= (total + gbs) - s
    <3> HIDE DEF total
    <3> QED BY <1>1, <2>5, ShareIs
  <2>7. k * gbs < (c + 1) * gbs
    <3>1. (c + 1) * gbs = total + gbs /\ k * gbs \in Nat
      BY <2>5
    <3> HIDE DEF total
    <3> QED BY <1>1, <2>6, <3>1
  <2>8. k < c + 1
    BY <2>5, <2>7, MultiplyStrictly
  <2>9. k \in 1..c
    BY <2>5, <2>8
  <2> QED BY <1>2, <2>3, <2>9
<1> QED BY <1>3, <1>4, <1>5 DEF RowsDivided

\* The rows of the shards, for bins that pack each global batch: every row of
\* the batch once.
RowsOfShards(packed, c, shards) ==
  [s \in 1..shards |-> FlattenSeq([g \in 1..c |-> FlattenSeq(BinsOf(packed[g], s, shards))])]

\* The shards of a packed batch have each of its rows once, whatever the bins are.
LEMMA PackedRows ==
  ASSUME NEW c \in Nat, NEW gbs \in Nat \ {0}, NEW shards \in Nat \ {0}, NEW packed,
         \A g \in 1..c : Deals(packed[g], RowsOf(g, gbs))
  PROVE  Deals(RowsOfShards(packed, c, shards), 1..(c * gbs))
<1> DEFINE R(g) == RowsOf(g, gbs)
           A == [g \in 1..c |-> CHOOSE a : DealsAs(packed[g], a, R(g))]
           P(g, s) == PartOf(A[g], Len(packed[g]), s, shards)
           part(g, s) == FlattenSeq(BinsOf(packed[g], s, shards))
           inner(s) == [g \in 1..c |-> part(g, s)]
           U(s) == UNION {P(g, s) : g \in 1..c}
           rows == RowsOfShards(packed, c, shards)
           I == 1..(c * gbs)
<1>1. /\ \A g \in 1..c : R(g) \subseteq I
      /\ \A g, h \in 1..c : g # h => R(g) \cap R(h) = {}
      /\ \A x \in I : \E g \in 1..c : x \in R(g)
  BY RowsAreDivided, Zenon DEF RowsDivided
<1> HIDE DEF R, I
<1>2. ASSUME NEW g \in 1..c PROVE AreParted(packed[g], A[g], R(g), shards)
  <2>1. DealsAs(packed[g], A[g], R(g))
    <3>1. \E a : DealsAs(packed[g], a, R(g))
      BY DEF Deals, R
    <3>2. A[g] = CHOOSE a : DealsAs(packed[g], a, R(g))
      OBVIOUS
    <3> HIDE DEF A
    <3> QED BY <3>1, <3>2, Zenon
  <2> HIDE DEF A
  <2> QED BY <2>1, PartsAreDealt
<1> HIDE DEF A
<1>3. /\ \A g \in 1..c : \A s \in 1..shards : P(g, s) \subseteq R(g) /\ Deals(BinsOf(packed[g], s, shards), P(g, s))
      /\ \A g \in 1..c : \A s, t \in 1..shards : s # t => P(g, s) \cap P(g, t) = {}
      /\ \A g \in 1..c : \A x \in R(g) : \E s \in 1..shards : x \in P(g, s)
  BY <1>2, Zenon DEF AreParted
<1> HIDE DEF P
<1>4. \A g \in 1..c : \A s \in 1..shards : Lists(part(g, s), P(g, s))
  BY <1>3, DealsFlat
<1>5. \A s \in 1..shards : \A x : x \in U(s) <=> \E g \in 1..c : x \in P(g, s)
  OBVIOUS
<1> HIDE DEF U, part
<1>6. ASSUME NEW s \in 1..shards
      PROVE  /\ Lists(FlattenSeq(inner(s)), U(s)) /\ U(s) \subseteq I
             /\ rows[s] = FlattenSeq(inner(s)) /\ rows[s] \in Seq(I)
  <2> DEFINE f == inner(s)
             B == [g \in 1..c |-> P(g, s)]
             V == Seq(I)
  <2>1. f = [g \in 1..c |-> f[g]] /\ \A g \in 1..c : f[g] = part(g, s) /\ B[g] = P(g, s)
    OBVIOUS
  <2>2. rows[s] = FlattenSeq(f)
    BY Zenon DEF RowsOfShards, part
  <2> HIDE DEF f, B
  <2>3. U(s) \subseteq I
    BY <1>1, <1>3, <1>5
  <2>4. \A g \in 1..c : Lists(f[g], B[g]) /\ B[g] \subseteq U(s)
    BY <1>4, <1>5, <2>1
  <2>5. \A g \in 1..c : f[g] \in V
    <3> TAKE g \in 1..c
    <3> DEFINE e == f[g]
               b == B[g]
    <3>1. e \in Seq(b) /\ b \subseteq I
      BY <2>3, <2>4 DEF Lists
    <3> HIDE DEF e, b
    <3>2. e \in Seq(I)
      BY <3>1
    <3> QED BY <3>2 DEF e
  <2> HIDE DEF V
  <2>6. f \in Seq(V) /\ Len(f) = c
    <3>1. IsSequence(f, V, c)
      BY <2>1, <2>5, SequenceIs
    <3> QED BY <3>1 DEF IsSequence
  <2>7. \A g, h \in 1..c : g # h => B[g] \cap B[h] = {}
    BY <1>1, <1>3, <2>1
  <2>8. \A x \in U(s) : \E g \in 1..c : x \in B[g]
    BY <1>5, <2>1
  <2>9. Deals(f, U(s))
    <3>1. c = Len(f)
      BY <2>6
    <3> QED BY ONLY <2>4, <2>6, <2>7, <2>8, <3>1, DealsClose
  <2>10. Lists(FlattenSeq(f), U(s))
    BY <2>9, DealsFlat
  <2>11. FlattenSeq(f) \in Seq(I)
    <3> DEFINE e == FlattenSeq(f)
               b == U(s)
    <3>1. e \in Seq(b) /\ b \subseteq I
      BY <2>3, <2>10 DEF Lists
    <3> HIDE DEF e, b
    <3>2. e \in Seq(I)
      BY <3>1
    <3> QED BY <3>2 DEF e
  <2> QED BY <2>2, <2>3, <2>10, <2>11 DEF f
<1> HIDE DEF inner
<1> DEFINE V == Seq(I)
           B == [s \in 1..shards |-> U(s)]
<1>7. rows = [s \in 1..shards |-> rows[s]] /\ \A s \in 1..shards : B[s] = U(s)
  BY DEF RowsOfShards
<1> HIDE DEF rows, B
<1>8. \A s \in 1..shards : rows[s] \in V /\ Lists(rows[s], B[s]) /\ B[s] \subseteq I
  BY <1>6, <1>7
<1> HIDE DEF V
<1>9. rows \in Seq(V) /\ Len(rows) = shards
  <2>1. IsSequence(rows, V, shards)
    BY <1>7, <1>8, SequenceIs
  <2> QED BY <2>1 DEF IsSequence
<1>10. \A s, t \in 1..shards : s # t => B[s] \cap B[t] = {}
  <2> TAKE s, t \in 1..shards
  <2> HAVE s # t
  <2> SUFFICES ASSUME NEW x, x \in B[s], x \in B[t] PROVE FALSE
    OBVIOUS
  <2>1. PICK g \in 1..c : x \in P(g, s)
    BY <1>5, <1>7
  <2>2. PICK h \in 1..c : x \in P(h, t)
    BY <1>5, <1>7
  <2>3. g = h
    <3>1. x \in R(g) /\ x \in R(h)
      BY <1>3, <2>1, <2>2
    <3> QED BY <1>1, <3>1
  <2> QED BY <1>3, <2>1, <2>2, <2>3
<1>11. \A x \in I : \E s \in 1..shards : x \in B[s]
  <2> TAKE x \in I
  <2>1. PICK g \in 1..c : x \in R(g)
    BY <1>1
  <2>2. PICK s \in 1..shards : x \in P(g, s)
    BY <1>3, <2>1
  <2>3. x \in B[s]
    BY <1>5, <1>7, <2>2
  <2> QED BY <2>3
<1>12. Deals(rows, I)
  <2>1. shards = Len(rows) /\ \A s \in 1..shards : Lists(rows[s], B[s]) /\ B[s] \subseteq I
    BY <1>8, <1>9
  <2> QED BY ONLY <1>9, <1>10, <1>11, <2>1, DealsClose
<1> QED BY <1>12 DEF rows, I

\* Bins that pack global batch g, enough for all shards.
PacksGlobal(bins, g, gbs, shards) ==
  /\ bins # <<>> /\ Deals(bins, RowsOf(g, gbs)) /\ Len(bins) \in Nat /\ Len(bins) >= shards

\* When every padded row is within the budget, each packer packs a global batch
\* into bins that hold each of its rows once, at least one bin for each shard.
LEMMA BinsOfGlobalPack ==
  ASSUME NEW algorithm \in {"concatenative", "first_fit_decreasing", "first_fit_shuffle",
                            "modified_first_fit_decreasing"},
         NEW lens \in Seq(Nat), NEW c \in Nat, NEW gbs \in Nat \ {0}, NEW shards \in Nat \ {0},
         NEW size \in Nat, gbs = shards * size, Len(lens) = c * gbs,
         NEW budget \in Nat, NEW pad \in Nat \ {0},
         \A i \in 1..Len(lens) : RoundUp(lens[i], pad) <= budget,
         NEW g \in 1..c, NEW bins \in BinsOfGlobal(lens, g, gbs, shards, algorithm, budget, pad)
  PROVE  PacksGlobal(bins, g, gbs, shards)
<1> DEFINE before == (g - 1) * gbs
           b == g * gbs
           p == PaddedLens(lens, g, gbs, pad)
<1>1. PICK raw \in Pack(algorithm, p, budget, shards) : bins = Shifted(raw, before)
  BY DEF BinsOfGlobal
<1>2. before \in Nat /\ b \in Nat /\ b = before + gbs /\ b <= Len(lens)
  <2>1. g \in Nat /\ g - 1 \in Nat /\ g <= c
    OBVIOUS
  <2>2. before \in Nat /\ b \in Nat /\ b = before + gbs
    BY <2>1
  <2>3. b <= c * gbs
    BY <2>1, MultiplyMonotonic
  <2> QED BY <2>2, <2>3
<1>3. p = [k \in 1..gbs |-> RoundUp(lens[before + k], pad)]
  BY DEF PaddedLens
<1>4. RowsOf(g, gbs) = (before + 1)..b
  BY DEF RowsOf
<1> HIDE DEF before, b, p
<1>5. \A k \in 1..gbs : p[k] \in Nat /\ p[k] <= budget
  <2> TAKE k \in 1..gbs
  <2> DEFINE i == before + k
  <2>1. i \in 1..Len(lens)
    BY <1>2
  <2>2. p[k] = RoundUp(lens[i], pad)
    BY <1>3
  <2> HIDE DEF i
  <2>3. lens[i] \in Nat /\ RoundUp(lens[i], pad) <= budget
    BY <2>1
  <2>4. RoundUp(lens[i], pad) \in Nat
    BY <2>3, RoundUpIs
  <2> QED BY <2>2, <2>3, <2>4
<1>6. p \in Seq(Nat) /\ Len(p) = gbs
  <2>1. p = [k \in 1..gbs |-> p[k]]
    BY <1>3
  <2>2. IsSequence(p, Nat, gbs)
    BY <1>5, <2>1, SequenceIs
  <2> QED BY <2>2 DEF IsSequence
<1>7. PackedFor(raw, p, budget, shards)
  <2>1. \E d \in Nat : Len(p) = d * shards
    BY <1>6, Multiply
  <2>2. Len(p) >= 1 /\ budget \in Int /\ \A i \in 1..Len(p) : p[i] <= budget
    BY <1>5, <1>6
  <2>3. raw # Raised /\ (raw = Raised \/ PackedFor(raw, p, budget, shards))
    BY ONLY <1>1, <1>6, <2>1, <2>2, PackPacks, shards \in Nat \ {0},
            algorithm \in {"concatenative", "first_fit_decreasing", "first_fit_shuffle",
                           "modified_first_fit_decreasing"}
  <2> QED BY <2>3
<1>8. Deals(raw, 1..gbs) /\ Len(raw) >= shards /\ Len(raw) \in Nat
  <2>1. Packs(raw, 1..gbs, p, budget) /\ Len(raw) >= shards
    BY <1>6, <1>7 DEF PackedFor
  <2> QED BY <2>1, PacksSeq DEF Packs
<1>9. Deals(bins, (before + 1)..(before + gbs)) /\ Len(bins) = Len(raw)
  BY <1>1, <1>2, <1>8, ShiftedDeals
<1>10. bins # <<>>
  <2>1. Len(bins) # 0
    BY <1>8, <1>9
  <2> QED BY <2>1
<1> QED BY <1>2, <1>4, <1>8, <1>9, <1>10 DEF PacksGlobal

\* Sequence packing cuts every global batch for all shards.
LEMMA ShardPackedIs ==
  ASSUME NEW algorithm \in {"concatenative", "first_fit_decreasing", "first_fit_shuffle",
                            "modified_first_fit_decreasing"},
         NEW lens \in Seq(Nat), NEW c \in Nat, NEW gbs \in Nat \ {0}, NEW shards \in Nat \ {0},
         NEW size \in Nat, gbs = shards * size, Len(lens) = c * gbs,
         Len(lens) % gbs = 0, gbs % shards = 0,
         NEW budget \in Nat, NEW pad \in Nat \ {0},
         \A i \in 1..Len(lens) : RoundUp(lens[i], pad) <= budget,
         NEW result \in ShardPacked(lens, gbs, shards, algorithm, budget, pad)
  PROVE  result # Raised /\ AreCut(result.shards, shards, c, c * gbs)
<1> DEFINE n == Len(lens) \div gbs
           Bins(g) == BinsOfGlobal(lens, g, gbs, shards, algorithm, budget, pad)
           ways == {p \in [1..n -> UNION {Bins(g) : g \in 1..n}] : \A g \in 1..n : p[g] \in Bins(g)}
<1>0. n = c
  <2>1. 0 \in 0..(gbs - 1) /\ c * gbs \in Nat
    OBVIOUS
  <2>2. (c * gbs + 0) \div gbs = c
    BY ONLY <2>1, c \in Nat, gbs \in Nat \ {0}, DivisionOf
  <2> QED BY <2>1, <2>2
<1>1. PICK packed \in ways :
        result = IF \E g \in 1..n : packed[g] = Raised THEN Raised
                 ELSE PackedBatch(packed, lens, pad, shards)
  <2>1. ~ CannotSplit(lens, gbs, shards)
    BY DEF CannotSplit
  <2>2. ShardPacked(lens, gbs, shards, algorithm, budget, pad) =
          {IF \E g \in 1..n : p[g] = Raised THEN Raised
           ELSE PackedBatch(p, lens, pad, shards) : p \in ways}
    BY <2>1, Zenon DEF ShardPacked
  <2> HIDE DEF ways
  <2> QED BY <2>2
<1> HIDE DEF n
<1>2. DOMAIN packed = 1..c /\ \A g \in 1..c : packed[g] \in Bins(g)
  <2> HIDE DEF Bins
  <2> QED BY <1>0
<1>3. Len(packed) = c
  BY <1>2
<1> HIDE DEF ways
<1>4. \A g \in 1..c : PacksGlobal(packed[g], g, gbs, shards)
  BY <1>2, BinsOfGlobalPack
<1> HIDE DEF Bins
<1>5. \A g \in 1..c : /\ packed[g] # Raised /\ Deals(packed[g], RowsOf(g, gbs))
                      /\ Len(packed[g]) \in Nat /\ Len(packed[g]) >= shards
  BY <1>4, Zenon DEF PacksGlobal, Raised
<1>6. result = PackedBatch(packed, lens, pad, shards)
  BY <1>0, <1>1, <1>5
<1> DEFINE parts == [s \in 1..shards |-> PackedShard(packed, lens, pad, s, shards)]
           rows == RowsOfShards(packed, c, shards)
           total == c * gbs
<1>7. result = [shards |-> parts, order |-> FlattenSeq([s \in 1..shards |-> parts[s].rows])]
  BY <1>6, Zenon DEF PackedBatch
<1>8. result # Raised /\ result.shards = parts
  BY <1>7, RecordIsNoError, Zenon
<1>9. ASSUME NEW s \in 1..shards
      PROVE  /\ parts[s].rows = rows[s] /\ Len(parts[s].micro) = c
             /\ \A g \in 1..c : parts[s].micro[g] = Bounds(BinsOf(packed[g], s, shards))
  <2> DEFINE m == Len(packed)
             mine == [g \in 1..m |-> BinsOf(packed[g], s, shards)]
             flat == [g \in 1..Len(mine) |-> FlattenSeq(mine[g])]
             micro == [g \in 1..Len(mine) |-> Bounds(mine[g])]
  <2>1. parts[s].rows = FlattenSeq(flat) /\ parts[s].micro = micro
    BY DEF PackedShard, Shard
  <2>2. mine = [g \in 1..c |-> BinsOf(packed[g], s, shards)] /\ Len(mine) = c
    BY <1>3
  <2>3. flat = [g \in 1..c |-> FlattenSeq(BinsOf(packed[g], s, shards))]
    <3> HIDE DEF mine
    <3> QED BY <2>2
  <2>4. rows[s] = FlattenSeq(flat)
    BY <2>3 DEF RowsOfShards
  <2>5. Len(micro) = c /\ \A g \in 1..c : micro[g] = Bounds(BinsOf(packed[g], s, shards))
    <3> HIDE DEF mine
    <3> QED BY <2>2
  <2> HIDE DEF parts, rows, flat, micro
  <2> QED BY <2>1, <2>4, <2>5
<1>10. DOMAIN parts = 1..shards /\ Len(parts) = shards
  OBVIOUS
<1> HIDE DEF parts
<1>12. ASSUME NEW s \in 1..shards, NEW g \in 1..c PROVE Len(parts[s].micro[g]) \in Nat \ {0}
  <2> DEFINE L == Len(packed[g])
             m == BinsOf(packed[g], s, shards)
  <2>1. \E V : packed[g] \in Seq(V)
    BY <1>5 DEF Deals, DealsAs
  <2>2. PICK V : packed[g] \in Seq(V)
    BY <2>1
  <2>3. AreBinsOf(m, packed[g], s, shards, V)
    BY <2>2, BinsOfAre
  <2>4. Len(m) = Share(L, s, shards)
    BY <2>3 DEF AreBinsOf
  <2>5. L \in Nat /\ L >= shards
    BY <1>5
  <2> HIDE DEF L, m
  <2>6. Len(m) \in Nat /\ Len(m) >= 1
    BY <2>4, <2>5, ShareIs
  <2>7. Len(Bounds(m)) = Len(m)
    BY <2>6 DEF Bounds
  <2>8. parts[s].micro[g] = Bounds(m)
    BY <1>9 DEF m
  <2> QED BY <2>6, <2>7, <2>8
<1>13. RowsIn(parts) = total
  <2>1. Deals(rows, 1..total)
    BY <1>5, PackedRows
  <2>2. Lists(FlattenSeq(rows), 1..total)
    BY <2>1, DealsFlat
  <2>3. Len(FlattenSeq(rows)) = total
    <3>1. total \in Nat
      OBVIOUS
    <3> HIDE DEF total, rows
    <3>2. 1 \in Int /\ total \in Int
      BY <3>1
    <3>3. Cardinality(1..total) = (IF 1 > total THEN 0 ELSE total - 1 + 1)
      BY ONLY <3>2, FS_Interval
    <3>4. Cardinality(1..total) = total
      BY <3>1, <3>3
    <3>5. Len(FlattenSeq(rows)) = Cardinality(1..total)
      BY <2>2, ListsCount
    <3> QED BY <3>4, <3>5
  <2>4. rows \in Seq(Seq(1..total))
    BY <2>1 DEF Deals, DealsAs
  <2>5. Len(rows) = shards
    BY DEF RowsOfShards
  <2> HIDE DEF rows, total
  <2>6. PICK B : PartOffsets(B, rows) /\ Joined(FlattenSeq(rows), rows, B)
    BY <2>4, Flattened
  <2>7. B \in [0..shards -> Nat] /\ B[0] = 0 /\ B[shards] = total
        /\ \A s \in 1..shards : B[s] = B[s - 1] + Len(rows[s])
    BY <2>3, <2>5, <2>6 DEF PartOffsets, Joined
  <2>8. \A s \in 1..shards : Len(parts[s].rows) \in Nat /\ B[s] = B[s - 1] + Len(parts[s].rows)
    <3> DEFINE V == Seq(1..total)
    <3>1. DOMAIN rows = 1..shards /\ rows \in Seq(V)
      BY <2>4, <2>5
    <3> HIDE DEF V
    <3> TAKE s \in 1..shards
    <3>2. rows[s] \in V
      BY <3>1, ElementOfSeq
    <3>3. rows[s] \in Seq(1..total)
      BY <3>2 DEF V
    <3>4. Len(rows[s]) \in Nat
      BY <3>3
    <3>5. parts[s].rows = rows[s]
      <4>1. parts[s].rows = RowsOfShards(packed, c, shards)[s]
        BY <1>9 DEF rows
      <4> QED BY <4>1, Zenon DEF rows
    <3>6. Len(parts[s].rows) = Len(rows[s])
      BY <3>5, Zenon
    <3>7. B[s] = B[s - 1] + Len(rows[s])
      BY <2>7
    <3> QED BY ONLY <3>4, <3>6, <3>7
  <2>9. RowsIn(parts) = B[shards]
    BY ONLY <1>10, <2>7, <2>8, shards \in Nat \ {0}, RowsInAre
  <2> QED BY <2>7, <2>9
<1> HIDE DEF total
<1>14. AreCut(parts, shards, c, total)
  BY <1>9, <1>10, <1>12, <1>13 DEF AreCut
<1> QED BY <1>8, <1>14 DEF total

-----------------------------------------------------------------------------
(* Programs without an item that raises.                                   *)

\* No item of the program raises.
Quiet(s) == \E V : s \in Seq(V) /\ \A x \in V : x.kind # "raise"

\* The empty program is quiet, ...
LEMMA QuietNone == Quiet(<<>>)
<1> DEFINE V == {}
<1>1. <<>> \in Seq(V)
  OBVIOUS
<1>2. \A x \in V : x.kind # "raise"
  OBVIOUS
<1> HIDE DEF V
<1> QED BY <1>1, <1>2 DEF Quiet

\* ... and so is a program of quiet items, ...
LEMMA QuietOf ==
  ASSUME NEW n \in Nat, NEW f, f = [k \in 1..n |-> f[k]],
         \A k \in 1..n : f[k].kind # "raise"
  PROVE  Quiet(f)
<1> DEFINE V == {f[k] : k \in 1..n}
<1>1. \A k \in 1..n : f[k] \in V
  OBVIOUS
<1>2. \A x \in V : x.kind # "raise"
  OBVIOUS
<1> HIDE DEF V
<1>3. IsSequence(f, V, n)
  BY <1>1, SequenceIs
<1> QED BY <1>2, <1>3 DEF IsSequence, Quiet

\* ... in particular of one, ...
LEMMA QuietOne ==
  ASSUME NEW x, x.kind # "raise"
  PROVE  Quiet(<<x>>)
<1> DEFINE V == {x}
<1>1. <<x>> \in Seq(V)
  OBVIOUS
<1>2. \A y \in V : y.kind # "raise"
  OBVIOUS
<1> HIDE DEF V
<1> QED BY <1>1, <1>2 DEF Quiet

\* ... of the items of two quiet programs, ...
LEMMA QuietBoth ==
  ASSUME NEW s, NEW t, Quiet(s), Quiet(t)
  PROVE  Quiet(s \o t)
<1>1. PICK V : s \in Seq(V) /\ \A x \in V : x.kind # "raise"
  BY DEF Quiet
<1>2. PICK W : t \in Seq(W) /\ \A x \in W : x.kind # "raise"
  BY DEF Quiet
<1> DEFINE X == V \cup W
<1>3. V \subseteq X /\ W \subseteq X /\ \A x \in X : x.kind # "raise"
  BY <1>1, <1>2
<1> HIDE DEF X
<1>4. s \in Seq(X) /\ t \in Seq(X)
  BY <1>1, <1>2, <1>3
<1>5. s \o t \in Seq(X)
  BY <1>4
<1> QED BY <1>3, <1>5 DEF Quiet

\* ... or of many, ...
LEMMA QuietFlat ==
  ASSUME NEW n \in Nat, NEW f, f = [k \in 1..n |-> f[k]], \A k \in 1..n : Quiet(f[k])
  PROVE  Quiet(FlattenSeq(f))
<1> DEFINE Items(k) == {f[k][j] : j \in 1..Len(f[k])}
           V == UNION {Items(k) : k \in 1..n}
           W == Seq(V)
<1>1. ASSUME NEW k \in 1..n
      PROVE  f[k] \in Seq(V) /\ \A x \in Items(k) : x.kind # "raise"
  <2>1. PICK U : f[k] \in Seq(U) /\ \A x \in U : x.kind # "raise"
    BY DEF Quiet
  <2> DEFINE s == f[k]
             m == Len(s)
  <2>2. m \in Nat /\ s = [j \in 1..m |-> s[j]] /\ \A j \in 1..m : s[j] \in U
    BY <2>1
  <2>3. \A j \in 1..m : s[j] \in V
    OBVIOUS
  <2>4. \A x \in Items(k) : x.kind # "raise"
    BY <2>1, <2>2
  <2> HIDE DEF m, V, Items
  <2>5. IsSequence(s, V, m)
    <3> HIDE DEF s
    <3> QED BY ONLY <2>2, <2>3, SequenceIs
  <2> QED BY <2>4, <2>5 DEF IsSequence
<1>2. \A x \in V : x.kind # "raise"
  BY <1>1
<1> HIDE DEF V
<1>3. \A k \in 1..n : f[k] \in W
  BY <1>1
<1> HIDE DEF W
<1>4. IsSequence(f, W, n)
  BY <1>3, SequenceIs
<1>5. f \in Seq(Seq(V))
  BY <1>4 DEF IsSequence, W
<1>6. FlattenSeq(f) \in Seq(V)
  BY <1>5, Flattened
<1> QED BY <1>2, <1>6 DEF Quiet

\* ... and what is left of it after its first item, which does not raise.
LEMMA QuietTail ==
  ASSUME NEW s, Quiet(s), s # <<>>
  PROVE  Quiet(Tail(s)) /\ Head(s).kind # "raise"
<1>1. PICK V : s \in Seq(V) /\ \A x \in V : x.kind # "raise"
  BY DEF Quiet
<1>2. Tail(s) \in Seq(V) /\ Head(s) \in V
  BY <1>1
<1> QED BY <1>1, <1>2 DEF Quiet

-----------------------------------------------------------------------------
(* The layout of the workers                                               *)

\* A configuration the policy can be used with.
Usable(s) == s \in Setups /\ ~ Refused(s)

\* The sizes of the axes are positive and make up the cluster.
LEMMA Sizes ==
  ASSUME Usable(setup)
  PROVE  /\ \A a \in {PP, DP, CP, TP} : AxisSize[a] \in Nat \ {0}
         /\ ((AxisSize[PP] * AxisSize[CP]) * AxisSize[TP]) * AxisSize[DP] = WorldSize
<1>1. setup.layout \in [{PP, DP, CP, TP} -> Nat \ {0}]
  BY SetupsAssumption DEF Usable
<1>2. ((setup.layout[PP] * setup.layout[CP]) * setup.layout[TP]) * setup.layout[DP] = WorldSize
  BY Zenon DEF Usable, Refused
<1> QED BY <1>1, <1>2 DEF AxisSize

\* How far the neighbours along each axis are apart.
LEMMA Strides ==
  ASSUME Usable(setup)
  PROVE  /\ Stride[2] = AxisSize[CP] * AxisSize[TP]
         /\ Stride[0] = AxisSize[PP] * (AxisSize[DP] * Stride[2])
<1> DEFINE n == Len(Axes)
           Size(i) == AxisSize[Axes[i + 1]]
           Rec(f) == f = [i \in 0..n |-> IF i = n THEN 1 ELSE Size(i) * f[i + 1]]
           p == AxisSize[PP]
           d == AxisSize[DP]
           c == AxisSize[CP]
           t == AxisSize[TP]
           g == [i \in 0..4 |-> CASE i = 4 -> 1 [] i = 3 -> t [] i = 2 -> c * t
                                  [] i = 1 -> d * (c * t) [] OTHER -> p * (d * (c * t))]
<1>1. n = 4 /\ Size(0) = p /\ Size(1) = d /\ Size(2) = c /\ Size(3) = t
  BY DEF Axes
<1>2. p \in Nat /\ d \in Nat /\ c \in Nat /\ t \in Nat
  BY Sizes
<1> HIDE DEF n, Size, p, d, c, t
<1>3. Rec(g)
  <2>1. /\ g[4] = 1 /\ g[3] = t /\ g[2] = c * t /\ g[1] = d * (c * t) /\ g[0] = p * (d * (c * t))
        /\ g = [i \in 0..4 |-> g[i]]
    OBVIOUS
  <2>2. \A i \in 0..4 : i = 0 \/ i = 1 \/ i = 2 \/ i = 3 \/ i = 4
    OBVIOUS
  <2>3. t * 1 = t
    BY <1>2
  <2> HIDE DEF g
  <2>4. \A i \in 0..4 : g[i] = IF i = 4 THEN 1 ELSE Size(i) * g[i + 1]
    BY <1>1, <2>1, <2>2, <2>3
  <2> QED BY <1>1, <2>1, <2>4
<1>4. Rec(Stride)
  <2>1. Stride = CHOOSE f : Rec(f)
    BY Zenon DEF Stride, n, Size
  <2> HIDE DEF Rec
  <2> QED BY <1>3, <2>1
<1>5. \A i \in 0..4 : Stride[i] = IF i = 4 THEN 1 ELSE Size(i) * Stride[i + 1]
  BY <1>1, <1>4
<1>6. Stride[4] = 1 /\ Stride[3] = t * Stride[4] /\ Stride[2] = c * Stride[3]
      /\ Stride[1] = d * Stride[2] /\ Stride[0] = p * Stride[1]
  BY <1>1, <1>5
<1>7. Stride[3] = t
  BY <1>2, <1>6
<1> QED BY <1>6, <1>7 DEF p, d, c, t

\* The workers are those of the cluster, and each belongs to a data-parallel
\* rank.
LEMMA WorkersAre ==
  ASSUME Usable(setup)
  PROVE  /\ Workers = AllWorkers /\ DPSize \in Nat \ {0}
         /\ \A w \in AllWorkers : Rank(w) \in 1..DPSize
<1> DEFINE p == AxisSize[PP]
           d == AxisSize[DP]
           c == AxisSize[CP]
           t == AxisSize[TP]
           s == Stride[2]
<1>1. /\ p \in Nat \ {0} /\ d \in Nat \ {0} /\ c \in Nat \ {0} /\ t \in Nat \ {0}
      /\ ((p * c) * t) * d = WorldSize
  BY Sizes
<1>2. s = c * t /\ Stride[0] = p * (d * s)
  BY Strides
<1>3. \A w : Coord(w, DP) = (w \div s) % d
  <2>1. (CHOOSE i \in 1..Len(Axes) : Axes[i] = DP) = 2
    BY DEF Axes, PP, DP, CP, TP
  <2> QED BY <2>1 DEF Coord
<1>4. DPSize = d
  BY DEF DPSize
<1> HIDE DEF p, d, c, t, s
<1>5. s \in Nat \ {0}
  BY <1>1, <1>2
<1>6. Stride[0] = WorldSize
  <2>1. (p * c) * t = p * (c * t) /\ (p * s) * d = p * (s * d) /\ s * d = d * s
    BY <1>1, <1>5, Multiply
  <2> QED BY <1>1, <1>2, <2>1
<1>7. Workers = AllWorkers
  BY <1>6, Zenon DEF Workers, AllWorkers
<1>8. ASSUME NEW w \in AllWorkers
      PROVE  Rank(w) \in 1..DPSize
  <2> DEFINE q == w \div s
  <2>1. w \in Nat
    BY SetupsAssumption DEF AllWorkers
  <2>2. q \in Nat
    BY <1>5, <2>1, Division
  <2> HIDE DEF q
  <2>3. q % d \in 0..(d - 1)
    BY <1>1, <2>2, Division
  <2>4. Rank(w) = (q % d) + 1
    BY <1>3 DEF Rank, q
  <2> QED BY <1>1, <1>4, <2>3, <2>4
<1> QED BY <1>1, <1>4, <1>7, <1>8

-----------------------------------------------------------------------------
(* The microbatches of a global batch                                      *)

\* The batches of all shards can be cut into microbatches, of size rows each
\* if they have not been cut before.
CanBeCut(batches, size) ==
  /\ Len(batches) = DPSize
  /\ \A s \in 1..DPSize :
       /\ setup.mode = "plain" => /\ Len(batches[s].rows) \in Nat \ {0}
                                  /\ Len(batches[s].rows) % size = 0
       /\ setup.mode # "plain" => /\ Len(batches[s].micro) = 1
                                  /\ Len(batches[s].micro[1]) \in Nat \ {0}

\* A whole number of parts, at least one.
LEMMA WholeParts ==
  ASSUME NEW n \in Nat \ {0}, NEW size \in Nat \ {0}, n % size = 0
  PROVE  n \div size \in Nat \ {0}
<1> DEFINE q == n \div size
<1>1. q \in Nat /\ n = q * size
  BY Divides
<1> HIDE DEF q
<1>2. q # 0
  BY <1>1
<1> QED BY <1>1, <1>2 DEF q

\* A sequence defined by its elements has as many as it is defined for.
LEMMA NotRaised ==
  ASSUME NEW n \in Nat \ {0}, NEW f, DOMAIN f = 1..n, Len(f) = n
  PROVE  f # Raised
<1>1. Len(Raised) = 0
  BY DEF Raised
<1> QED BY <1>1

\* They are cut without an error into at least one microbatch.
LEMMA MicrobatchesAre ==
  ASSUME NEW batches, NEW size \in Nat \ {0}, CanBeCut(batches, size), NEW s \in 1..DPSize
  PROVE  /\ Microbatches(batches[s], size) # Raised
         /\ Len(Microbatches(batches[s], size)) \in Nat \ {0}
<1> DEFINE batch == batches[s]
           mbs == Microbatches(batch, size)
<1>1. CASE setup.mode = "plain"
  <2> DEFINE m == Len(batch.rows) \div size
             Cut(k) == [rows |-> Chunk(batch.rows, k, size), width |-> Widest(setup.lens)]
             f == [k \in 1..m |-> Cut(k)]
  <2>1. Len(batch.rows) \in Nat \ {0} /\ Len(batch.rows) % size = 0
    BY <1>1 DEF CanBeCut
  <2>2. m \in Nat \ {0}
    <3> DEFINE x == Len(batch.rows)
    <3>1. x \in Nat \ {0} /\ x % size = 0
      BY <2>1
    <3> HIDE DEF x
    <3>2. x \div size \in Nat \ {0}
      BY <3>1, WholeParts
    <3> QED BY <3>2 DEF x
  <2>3. mbs = f
    BY <1>1, <2>1, Zenon DEF Microbatches, PlainMicrobatches
  <2> HIDE DEF m, Cut, batch
  <2>4. DOMAIN f = 1..m /\ Len(f) = m
    BY <2>2
  <2> HIDE DEF f
  <2>5. f # Raised
    BY <2>2, <2>4, NotRaised
  <2> QED BY <2>2, <2>3, <2>4, <2>5 DEF batch
<1>2. CASE setup.mode # "plain"
  <2> DEFINE m == Len(batch.micro[1])
             Cut(k) == [rows |-> SubSeq(batch.rows, batch.micro[1][k][1] + 1,
                                                   batch.micro[1][k][2]),
                       width |-> batch.width[1][k]]
             f == [k \in 1..m |-> Cut(k)]
  <2>1. Len(batch.micro) = 1 /\ m \in Nat \ {0}
    BY <1>2 DEF CanBeCut
  <2>3. mbs = f
    <3>1. mbs = CutMicrobatches(batch)
      BY <1>2, Zenon DEF Microbatches
    <3>2. CutMicrobatches(batch) = f
      BY <2>1, Zenon DEF CutMicrobatches
    <3> QED BY ONLY <3>1, <3>2, Zenon
  <2> HIDE DEF m, Cut, batch
  <2>4. DOMAIN f = 1..m /\ Len(f) = m
    BY <2>1
  <2> HIDE DEF f
  <2>5. f # Raised
    BY <2>1, <2>4, NotRaised
  <2> QED BY <2>1, <2>3, <2>4, <2>5 DEF batch
<1> QED BY <1>1, <1>2

\* The number of dummies is one.
LEMMA DummiesAre ==
  ASSUME DPSize \in Nat, NEW batches, NEW size, CanBeCut(batches, size), NEW r \in 1..DPSize
  PROVE  Dummies(batches, r) \in Nat
<1> DEFINE f == [s \in 1..Len(batches) |-> Len(batches[s].micro[1])]
           x == Len(batches[r].micro[1])
<1>1. CASE setup.mode # "packed" \/ Len(batches[r].micro) # 1
  BY <1>1 DEF Dummies
<1>2. CASE ~ (setup.mode # "packed" \/ Len(batches[r].micro) # 1)
  <2>1. Dummies(batches, r) = Widest(f) - x
    BY <1>2, Zenon DEF Dummies
  <2>2. Len(batches) = DPSize
    BY DEF CanBeCut
  <2>3. \A s \in 1..DPSize : Len(batches[s].micro[1]) \in Nat
    BY <1>2 DEF CanBeCut
  <2>4. f = [s \in 1..DPSize |-> f[s]] /\ \A s \in 1..DPSize : f[s] \in Nat
    BY <2>2, <2>3
  <2>5. f[r] = x
    BY <2>2
  <2> HIDE DEF f, x
  <2>6. f \in Seq(Nat) /\ Len(f) = DPSize
    BY <2>4, SequenceIs DEF IsSequence
  <2>7. IsWidest(Widest(f), f)
    BY <2>6, WidestIs
  <2>8. Widest(f) \in Nat /\ x <= Widest(f) /\ x \in Nat
    BY <2>4, <2>5, <2>6, <2>7 DEF IsWidest
  <2> QED BY <2>1, <2>8
<1> QED BY <1>1, <1>2

\* The passes of a worker under FSDP are quiet, ...
LEMMA ShardedPassesQuiet ==
  ASSUME Usable(setup), NEW kind, kind # "raise", NEW w \in AllWorkers, NEW group, NEW batches,
         NEW size \in Nat \ {0}, NEW keeps, CanBeCut(batches, size)
  PROVE  Quiet(ShardedPasses(kind, w, group, batches, size, keeps))
<1> DEFINE r == Rank(w)
           mbs == Microbatches(batches[r], size)
           m == Len(mbs)
           d == Dummies(batches, r)
           Extra(mb) == Item(kind, group, IF keeps THEN mb.rows ELSE <<>>, 0)
           f == [k \in 1..d |-> Extra(mbs[((k - 1) % m) + 1])]
<1>1. r \in 1..DPSize /\ DPSize \in Nat
  BY WorkersAre
<1>2. mbs # Raised /\ m \in Nat
  <2> HIDE DEF r
  <2> QED BY <1>1, MicrobatchesAre
<1>3. d \in Nat
  <2> HIDE DEF r
  <2> QED BY <1>1, DummiesAre
<1>4. ShardedPasses(kind, w, group, batches, size, keeps) = Passes(kind, group, mbs) \o f
  BY <1>2, Zenon DEF ShardedPasses
<1>5. Quiet(Passes(kind, group, mbs))
  <2> DEFINE g == Passes(kind, group, mbs)
  <2> HIDE DEF mbs
  <2>1. g = [k \in 1..m |-> g[k]] /\ \A k \in 1..m : g[k].kind = kind
    BY DEF Passes, Item
  <2> HIDE DEF g, m
  <2>2. Quiet(g)
    BY <1>2, <2>1, QuietOf
  <2> QED BY <2>2 DEF g
<1>6. Quiet(f)
  <2> HIDE DEF mbs, m, d
  <2>1. f = [k \in 1..d |-> f[k]] /\ \A k \in 1..d : f[k].kind = kind
    BY DEF Item
  <2> HIDE DEF f
  <2> QED BY <1>3, <2>1, QuietOf
<1> HIDE DEF f
<1> QED BY <1>4, <1>5, <1>6, QuietBoth

\* ... and those of a worker of Megatron.
LEMMA MegatronPassesQuiet ==
  ASSUME Usable(setup), NEW kind, kind # "raise", NEW w \in AllWorkers, NEW reader, NEW batches,
         NEW size \in Nat \ {0}, CanBeCut(batches, size)
  PROVE  Quiet(MegatronPasses(kind, reader, w, batches[Rank(w)], size))
<1> DEFINE r == Rank(w)
           batch == batches[r]
           mbs == Microbatches(batch, size)
           n == Len(mbs)
           read == [m \in 1..n |-> MegatronReads(reader, batch, mbs[m])]
           g == Passes(kind, ModelGroup(w), read)
<1>1. r \in 1..DPSize
  BY WorkersAre
<1>2. mbs # Raised /\ n \in Nat
  <2> HIDE DEF r
  <2> QED BY <1>1, MicrobatchesAre
<1>3. MegatronPasses(kind, reader, w, batch, size) = g
  BY <1>2, Zenon DEF MegatronPasses
<1> HIDE DEF mbs, n, r
<1>4. Len(read) = n
  BY <1>2
<1> HIDE DEF read
<1>5. g = [k \in 1..n |-> g[k]] /\ \A k \in 1..n : g[k].kind = kind
  BY <1>4 DEF Passes, Item
<1> HIDE DEF g
<1>6. Quiet(g)
  BY <1>2, <1>5, QuietOf
<1> QED BY <1>3, <1>6 DEF r

-----------------------------------------------------------------------------
(* The programs of a call whose batches can be cut                         *)

\* The collective on the number of bins raises nothing.
LEMMA AgreeOnBinsQuiet == Quiet(AgreeOnBins)
<1>1. Sync("bins", Workers).kind # "raise"
  BY DEF Sync, Item
<1>2. Quiet(<<Sync("bins", Workers)>>)
  <2> DEFINE x == Sync("bins", Workers)
  <2> HIDE DEF x
  <2>1. x.kind # "raise"
    BY <1>1 DEF x
  <2>2. Quiet(<<x>>)
    BY <2>1, QuietOne
  <2> QED BY <2>2 DEF x
<1> QED BY <1>2, QuietNone, Zenon DEF AgreeOnBins

\* Nor do the others.
LEMMA SyncQuiet ==
  ASSUME NEW kind, kind # "raise", NEW group
  PROVE  Quiet(<<Sync(kind, group)>>)
<1> DEFINE x == Sync(kind, group)
<1>1. x.kind # "raise"
  BY DEF Sync, Item
<1> HIDE DEF x
<1>2. Quiet(<<x>>)
  BY <1>1, QuietOne
<1> QED BY <1>2 DEF x

\* A program between two collectives.
LEMMA QuietBetween ==
  ASSUME NEW a, NEW s, NEW b, Quiet(<<a>>), Quiet(s), Quiet(<<b>>)
  PROVE  Quiet(<<a>> \o s \o <<b>>)
<1> DEFINE x == <<a>>
           y == <<b>>
<1>1. Quiet(x) /\ Quiet(y)
  OBVIOUS
<1> HIDE DEF x, y
<1>2. Quiet(x \o s)
  BY <1>1, QuietBoth
<1>3. Quiet((x \o s) \o y)
  <2> DEFINE z == x \o s
  <2> HIDE DEF z
  <2>1. Quiet(z)
    BY <1>2 DEF z
  <2>2. Quiet(z \o y)
    BY <1>1, <2>1, QuietBoth
  <2> QED BY <2>2 DEF z
<1> QED BY <1>3 DEF x, y

\* What a worker does with a global batch.
LEMMA GlobalBatchQuiet ==
  ASSUME Usable(setup), NEW w \in AllWorkers, NEW batches, CanBeCut(batches, setup.mbs)
  PROVE  /\ Quiet(DTensorGlobalBatch(w, batches))
         /\ Quiet(AutomodelGlobalBatch(w, batches))
         /\ Quiet(MegatronGlobalBatch(w, batches[Rank(w)]))
<1>0. setup.mbs \in Nat \ {0}
  BY SetupsAssumption DEF Usable
<1> DEFINE counts == Sync("counts", DPGroup(w))
           step == Sync("step", Workers)
           losses == Sync("losses", Along(w, {PP}))
           back == ShardedPasses("backward", w, Workers, batches, setup.mbs, FALSE)
           local == MegatronPasses("backward", "loss", w, batches[Rank(w)], setup.mbs)
           bins == AgreeOnBins
<1>1. Quiet(<<counts>>) /\ Quiet(<<step>>) /\ Quiet(<<losses>>)
  BY SyncQuiet
<1>2. Quiet(bins) /\ Quiet(back) /\ Quiet(local)
  BY <1>0, AgreeOnBinsQuiet, ShardedPassesQuiet, MegatronPassesQuiet
<1>3. /\ DTensorGlobalBatch(w, batches) = <<counts>> \o bins \o back \o <<step>>
      /\ AutomodelGlobalBatch(w, batches) = <<counts>> \o (bins \o back) \o <<step>>
      /\ MegatronGlobalBatch(w, batches[Rank(w)]) = <<counts>> \o local \o <<step, losses>>
  BY Zenon DEF DTensorGlobalBatch, DTensorBackward, AutomodelGlobalBatch, AutomodelPasses,
               MegatronGlobalBatch
<1> HIDE DEF counts, step, losses, back, local, bins
<1>4. Quiet(<<counts>> \o bins \o back \o <<step>>)
  <2> DEFINE a == <<counts>>
             z == <<step>>
             p == a \o bins
             q == p \o back
  <2>1. Quiet(a) /\ Quiet(z)
    BY <1>1
  <2> HIDE DEF a, z
  <2>2. Quiet(p)
    BY <1>2, <2>1, QuietBoth
  <2> HIDE DEF p
  <2>3. Quiet(q)
    BY <1>2, <2>2, QuietBoth
  <2> HIDE DEF q
  <2>4. Quiet(q \o z)
    BY <2>1, <2>3, QuietBoth
  <2> QED BY <2>4 DEF a, z, p, q
<1>5. Quiet(<<counts>> \o (bins \o back) \o <<step>>)
  <2> DEFINE p == bins \o back
  <2>1. Quiet(p)
    BY <1>2, QuietBoth
  <2> HIDE DEF p
  <2>2. Quiet(<<counts>> \o p \o <<step>>)
    BY <1>1, <2>1, QuietBetween
  <2> QED BY <2>2 DEF p
<1>6. Quiet(<<counts>> \o local \o <<step, losses>>)
  <2> DEFINE a == <<counts>>
             z == <<step, losses>>
             p == a \o local
  <2>1. Quiet(a)
    BY <1>1
  <2>2. step.kind # "raise" /\ losses.kind # "raise"
    BY DEF step, losses, Sync, Item
  <2>3. z = [k \in 1..2 |-> z[k]] /\ \A k \in 1..2 : z[k] = step \/ z[k] = losses
    OBVIOUS
  <2>4. Quiet(z)
    <3> HIDE DEF z
    <3>1. \A k \in 1..2 : z[k].kind # "raise"
      BY <2>2, <2>3
    <3> QED BY <2>3, <3>1, QuietOf
  <2> HIDE DEF a, z
  <2>5. Quiet(p)
    BY <1>2, <2>1, QuietBoth
  <2> HIDE DEF p
  <2>6. Quiet(p \o z)
    BY <2>4, <2>5, QuietBoth
  <2> QED BY <2>6 DEF a, z, p
<1> QED BY <1>3, <1>4, <1>5, <1>6, Zenon

\* All global batches can be cut into microbatches of mbs rows.
ReadyToTrain(shards) ==
  /\ GlobalBatches(shards) \in Nat
  /\ \A g \in 1..GlobalBatches(shards) : CanBeCut(BatchesAt(shards, g), setup.mbs)

\* Then train raises nothing.
LEMMA TrainQuiet ==
  ASSUME Usable(setup), NEW w \in AllWorkers, NEW shards, ReadyToTrain(shards)
  PROVE  /\ Quiet(DTensorTrain(w, shards)) /\ Quiet(AutomodelTrain(w, shards))
         /\ Quiet(MegatronTrain(w, shards))
<1> DEFINE size == Sync("size", DPGroup(w))
           loss == Sync("loss", DPGroup(w))
           n == GlobalBatches(shards)
           one == [g \in 1..n |-> DTensorGlobalBatch(w, BatchesAt(shards, g))]
           two == [g \in 1..n |-> AutomodelGlobalBatch(w, BatchesAt(shards, g))]
           three == [g \in 1..n |-> MegatronGlobalBatch(w, BatchesAt(shards, g)[Rank(w)])]
<1>1. Quiet(<<size>>) /\ Quiet(<<loss>>)
  BY SyncQuiet
<1>2. DTensorTrain(w, shards) = <<size>> \o FlattenSeq(one) \o <<loss>>
  BY DEF DTensorTrain, EachGlobalBatch
<1>3. AutomodelTrain(w, shards) = <<size>> \o FlattenSeq(two) \o <<loss>>
  BY DEF AutomodelTrain, EachGlobalBatch
<1>4. MegatronTrain(w, shards) = <<size>> \o FlattenSeq(three) \o <<loss>>
  BY DEF MegatronTrain, EachGlobalBatch
<1>5. n \in Nat
  BY DEF ReadyToTrain
<1> HIDE DEF size, loss, n
<1>6. \A g \in 1..n : Quiet(one[g]) /\ Quiet(two[g]) /\ Quiet(three[g])
  <2> TAKE g \in 1..n
  <2> DEFINE b == BatchesAt(shards, g)
  <2>1. CanBeCut(b, setup.mbs)
    BY DEF ReadyToTrain, n
  <2>2. one[g] = DTensorGlobalBatch(w, b) /\ two[g] = AutomodelGlobalBatch(w, b)
        /\ three[g] = MegatronGlobalBatch(w, b[Rank(w)])
    OBVIOUS
  <2> HIDE DEF b, one, two, three
  <2> QED BY <2>1, <2>2, GlobalBatchQuiet
<1>7. one = [g \in 1..n |-> one[g]] /\ two = [g \in 1..n |-> two[g]]
      /\ three = [g \in 1..n |-> three[g]]
  OBVIOUS
<1> HIDE DEF one, two, three
<1>8. Quiet(FlattenSeq(one)) /\ Quiet(FlattenSeq(two)) /\ Quiet(FlattenSeq(three))
  BY <1>5, <1>6, <1>7, QuietFlat
<1>9. Quiet(<<size>> \o FlattenSeq(one) \o <<loss>>)
  BY <1>1, <1>8, QuietBetween
<1>10. Quiet(<<size>> \o FlattenSeq(two) \o <<loss>>)
  BY <1>1, <1>8, QuietBetween
<1>11. Quiet(<<size>> \o FlattenSeq(three) \o <<loss>>)
  BY <1>1, <1>8, QuietBetween
<1> QED BY ONLY <1>2, <1>3, <1>4, <1>9, <1>10, <1>11, Zenon

\* The programs of get_logprobs, of get_reference_policy_logprobs and of
\* get_topk_logits.
LEMMA InferenceQuiet ==
  ASSUME Usable(setup), NEW w \in AllWorkers, NEW shards, CanBeCut(shards, setup.logprobBatch)
  PROVE  /\ Quiet(DTensorLogprobs(w, shards)) /\ Quiet(DTensorTopk(w, shards))
         /\ Quiet(AutomodelLogprobs(w, shards)) /\ Quiet(AutomodelTopk(w, shards))
         /\ Quiet(MegatronLogprobs(w, shards)) /\ Quiet(MegatronTopk(w, shards))
<1>0. setup.logprobBatch \in Nat \ {0}
  BY SetupsAssumption DEF Usable
<1> DEFINE size == setup.logprobBatch
           unshard == <<Sync("unshard", Workers)>>
           answers == <<Sync("answers", Along(w, {PP}))>>
           one == ShardedPasses("forward", w, ModelGroup(w), shards, size, FALSE)
           two == ShardedPasses("forward", w, Workers, shards, size, TRUE)
           three == ShardedPasses("forward", w, Workers, shards, size, FALSE)
           four == MegatronPasses("forward", "logprobs", w, shards[Rank(w)], size)
           five == MegatronPasses("forward", "topk", w, shards[Rank(w)], size)
           bins == AgreeOnBins
<1>1. Quiet(unshard) /\ Quiet(answers) /\ Quiet(bins)
  BY SyncQuiet, AgreeOnBinsQuiet
<1>2. Quiet(one) /\ Quiet(two) /\ Quiet(three)
  BY <1>0, ShardedPassesQuiet
<1>3. Quiet(four) /\ Quiet(five)
  BY <1>0, MegatronPassesQuiet
<1>4. /\ DTensorLogprobs(w, shards) = unshard \o bins \o one
      /\ DTensorTopk(w, shards) = bins \o two
      /\ AutomodelLogprobs(w, shards) = bins \o three
      /\ AutomodelTopk(w, shards) = bins \o three
      /\ MegatronLogprobs(w, shards) = four \o answers
      /\ MegatronTopk(w, shards) = five \o answers
  BY Zenon DEF DTensorLogprobs, DTensorTopk, AutomodelLogprobs, AutomodelTopk, AutomodelPasses,
               MegatronLogprobs, MegatronTopk
<1> HIDE DEF size, unshard, answers, one, two, three, four, five, bins
<1>5. Quiet(bins \o two) /\ Quiet(bins \o three) /\ Quiet(four \o answers) /\ Quiet(five \o answers)
  BY <1>1, <1>2, <1>3, QuietBoth
<1>6. Quiet(unshard \o bins \o one)
  <2> DEFINE p == unshard \o bins
  <2>1. Quiet(p)
    BY <1>1, QuietBoth
  <2> HIDE DEF p
  <2>2. Quiet(p \o one)
    BY <1>2, <2>1, QuietBoth
  <2> QED BY <2>2 DEF p
<1> QED BY ONLY <1>4, <1>5, <1>6, Zenon

\* The programs of score, whose microbatches are no larger than the shard.
LEMMA ScoreQuiet ==
  ASSUME Usable(setup), NEW w \in AllWorkers, NEW shards, NEW size \in Nat \ {0},
         CanBeCut(shards, size), ScoreSize(shards[Rank(w)]) = size
  PROVE  Quiet(DTensorScore(w, shards)) /\ Quiet(AutomodelScore(w, shards))
<1> DEFINE unshard == <<Sync("unshard", Workers)>>
           one == ShardedPasses("forward", w, ModelGroup(w), shards, size, TRUE)
           two == ShardedPasses("forward", w, Workers, shards, size, FALSE)
           bins == AgreeOnBins
<1>1. Quiet(unshard) /\ Quiet(bins) /\ Quiet(one) /\ Quiet(two)
  BY SyncQuiet, AgreeOnBinsQuiet, ShardedPassesQuiet
<1>2. /\ DTensorScore(w, shards) = unshard \o one
      /\ AutomodelScore(w, shards) = bins \o two
  BY Zenon DEF DTensorScore, AutomodelScore, AutomodelPasses
<1> HIDE DEF unshard, one, two, bins
<1>3. Quiet(unshard \o one) /\ Quiet(bins \o two)
  BY <1>1, QuietBoth
<1> QED BY ONLY <1>2, <1>3, Zenon

-----------------------------------------------------------------------------
(* The batches of an acceptable call can be cut                            *)

\* As many elements as the bounds say.
LEMMA LengthBetween ==
  ASSUME NEW s, NEW a \in Nat, NEW n \in Nat, NEW p, p = a + 1, NEW q, q = a + n
  PROVE  Len(SubSeq(s, p, q)) = n
OBVIOUS

\* get_batch of a batch that has not been cut, ...
LEMMA GetPlain ==
  ASSUME NEW shard, shard.elems = <<>>, NEW g \in Nat \ {0}, NEW size \in Nat
  PROVE  Len(GetBatch(shard, g, size).rows) = size
<1> DEFINE a == (g - 1) * size
<1>1. a \in Nat
  <2>1. g - 1 \in Nat
    OBVIOUS
  <2> DEFINE h == g - 1
  <2> HIDE DEF h
  <2>2. h \in Nat
    BY <2>1 DEF h
  <2>3. h * size \in Nat
    BY <2>2
  <2> QED BY <2>3 DEF h
<1>2. GetBatch(shard, g, size).rows = SubSeq(shard.rows, a + 1, a + size)
  BY Zenon DEF GetBatch
<1> HIDE DEF a
<1> QED BY <1>1, <1>2, LengthBetween

\* ... and of one that has.
LEMMA GetCut ==
  ASSUME NEW shard, shard.micro # <<>>, NEW g, NEW size
  PROVE  GetBatch(shard, g, size).micro = <<shard.micro[g]>>
BY DEF GetBatch

\* Sizes that divide.
Divided(o, gbs, c, size) ==
  /\ gbs \in Nat \ {0} /\ c \in Nat /\ size \in Nat \ {0} /\ DPSize \in Nat \ {0}
  /\ gbs = DPSize * size /\ N = c * gbs /\ N % gbs = 0 /\ gbs % DPSize = 0
  /\ gbs = (IF o = "train" THEN setup.gbs ELSE N) /\ size = gbs \div DPSize
  /\ c = N \div gbs

\* What Acceptable asks of the sizes.
LEMMA SizesDivide ==
  ASSUME Usable(setup), NEW o, Acceptable(o)
  PROVE  \E gbs, c, size : Divided(o, gbs, c, size)
<1> DEFINE gbs == IF o = "train" THEN setup.gbs ELSE N
           c == N \div gbs
           size == gbs \div DPSize
<1>1. N \in Nat \ {0}
  <2>1. setup.lens \in Seq(Nat \ {0}) /\ setup.lens # <<>>
    BY SetupsAssumption DEF Usable
  <2> QED BY <2>1 DEF N
<1>2. gbs \in Nat \ {0}
  <2>1. setup.gbs \in Nat \ {0}
    BY SetupsAssumption DEF Usable
  <2> QED BY <1>1, <2>1
<1>3. N % gbs = 0 /\ gbs % DPSize = 0
  BY Zenon DEF Acceptable
<1>4. DPSize \in Nat \ {0}
  BY WorkersAre
<1> HIDE DEF gbs
<1>5. c \in Nat /\ N = c * gbs
  BY <1>1, <1>2, <1>3, Divides
<1>6. size \in Nat \ {0} /\ gbs = size * DPSize
  BY <1>2, <1>3, <1>4, Divides, WholeParts
<1> HIDE DEF c, size
<1>7. gbs = DPSize * size
  BY <1>4, <1>6
<1>8. c = N \div gbs /\ size = gbs \div DPSize
  BY DEF c, size
<1>9. gbs = IF o = "train" THEN setup.gbs ELSE N
  BY DEF gbs
<1>10. Divided(o, gbs, c, size)
  BY <1>1, <1>2, <1>3, <1>4, <1>5, <1>6, <1>7, <1>8, <1>9, Zenon DEF Divided
<1> QED BY <1>10

\* The calls that neither sort nor pack.
Unsorted(o) == o \in {"generate", "score"} \/ setup.mode = "plain"

\* The shards of a call with sizes that divide.
SplitInto(result, o, c, size) ==
  /\ result # Raised
  /\ Unsorted(o) => ArePlain(result.shards, DPSize, c * size)
  /\ ~ Unsorted(o) => AreCut(result.shards, DPSize, c, N)

\* An acceptable call splits its batch: no split raises.
LEMMA SplitsAre ==
  ASSUME Usable(setup), NEW o \in Operations, Acceptable(o), NEW gbs, NEW c, NEW size,
         Divided(o, gbs, c, size), NEW result \in Splits(o)
  PROVE  SplitInto(result, o, c, size)
<1> DEFINE lens == setup.lens
           budget == Budget(o)
           round == setup.round
           pad == PadMultiple
           Wide(i) == IF setup.mode = "packed" THEN RoundUp(setup.lens[i], PadMultiple)
                      ELSE Capped(setup.lens, i, setup.round)
<1>1. lens \in Seq(Nat) /\ Len(lens) = N
  <2>1. lens \in Seq(Nat \ {0})
    BY SetupsAssumption DEF Usable
  <2> QED BY <2>1 DEF N
<1>2. budget \in Nat /\ round \in Nat \ {0}
  BY SetupsAssumption DEF Usable, Budget
<1>3. pad \in Nat \ {0}
  <2> DEFINE x == AxisSize[CP]
             y == AxisSize[TP]
  <2>1. x \in Nat \ {0} /\ y \in Nat \ {0}
    BY Sizes
  <2>2. pad = IF x > 1 THEN x * 2 * y ELSE y
    BY DEF PadMultiple
  <2> HIDE DEF x, y, pad
  <2>3. x * 2 \in Nat \ {0}
    BY <2>1
  <2> DEFINE z == x * 2
  <2> HIDE DEF z
  <2>4. z * y \in Nat \ {0}
    BY <2>1, <2>3 DEF z
  <2> QED BY <2>1, <2>2, <2>4 DEF z
<1>4. /\ gbs \in Nat \ {0} /\ c \in Nat /\ size \in Nat /\ DPSize \in Nat \ {0}
      /\ gbs = DPSize * size /\ Len(lens) = c * gbs /\ Len(lens) % gbs = 0 /\ gbs % DPSize = 0
  BY <1>1 DEF Divided
<1>5. gbs = IF o = "train" THEN setup.gbs ELSE N
  BY DEF Divided
<1>6. ~ Unsorted(o) => \A i \in 1..Len(lens) : Wide(i) <= budget
  BY <1>1, Zenon DEF Acceptable, Unsorted, Rows, Capped
<1>7. CASE Unsorted(o)
  <2>1. result = ShardPlain(lens, gbs, DPSize)
    BY <1>5, <1>7, Zenon DEF Splits, Unsorted
  <2> HIDE DEF lens
  <2>2. result # Raised /\ ArePlain(result.shards, DPSize, c * size)
    BY <1>1, <1>4, <2>1, ShardPlainIs
  <2> QED BY <1>7, <2>2 DEF SplitInto
<1>8. CASE ~ Unsorted(o) /\ setup.mode = "dynamic"
  <2>1. result = ShardDynamic(lens, gbs, DPSize, budget, round)
    BY <1>5, <1>8, Zenon DEF Splits, Unsorted
  <2>2. \A i \in 1..Len(lens) : Capped(lens, i, round) <= budget
    BY <1>6, <1>8
  <2> HIDE DEF lens, budget, round
  <2>3. result # Raised /\ AreCut(result.shards, DPSize, c, c * gbs)
    BY <1>1, <1>2, <1>4, <2>1, <2>2, ShardDynamicIs
  <2> QED BY <1>1, <1>4, <1>8, <2>3 DEF SplitInto
<1>9. CASE ~ Unsorted(o) /\ setup.mode # "dynamic"
  <2>0. setup.mode \in {"plain", "dynamic", "packed"}
    BY SetupsAssumption DEF Usable
  <2>1. setup.mode = "packed"
    BY <1>9, <2>0 DEF Unsorted
  <2>2. result \in ShardPacked(lens, gbs, DPSize, setup.algorithm, budget, pad)
    BY <1>5, <1>9, Zenon DEF Splits, Unsorted
  <2>3. \A i \in 1..Len(lens) : RoundUp(lens[i], pad) <= budget
    BY <1>6, <1>9, <2>1
  <2>4. setup.algorithm \in {"concatenative", "first_fit_decreasing",
                             "first_fit_shuffle", "modified_first_fit_decreasing"}
    BY <2>1, SetupsAssumption DEF Usable
  <2> HIDE DEF lens, budget, pad
  <2>5. result # Raised /\ AreCut(result.shards, DPSize, c, c * gbs)
    BY <1>1, <1>2, <1>3, <1>4, <2>2, <2>3, <2>4, ShardPackedIs
  <2> QED BY <1>1, <1>4, <1>9, <2>5 DEF SplitInto
<1> QED BY <1>7, <1>8, <1>9

\* The batch of an acceptable call of train is ready to be trained on ...
LEMMA TrainReady ==
  ASSUME Usable(setup), Acceptable("train"), NEW gbs, NEW c, NEW size,
         Divided("train", gbs, c, size), NEW result, SplitInto(result, "train", c, size)
  PROVE  ReadyToTrain(result.shards)
<1> DEFINE shards == result.shards
           n == GlobalBatches(shards)
<1>1. /\ gbs \in Nat \ {0} /\ c \in Nat /\ size \in Nat \ {0} /\ DPSize \in Nat \ {0}
      /\ gbs = setup.gbs /\ size = setup.gbs \div DPSize /\ N = c * gbs
  BY DEF Divided
<1>2. \A g : /\ Len(BatchesAt(shards, g)) = DPSize
             /\ \A s \in 1..DPSize : BatchesAt(shards, g)[s] = GetBatch(shards[s], g, size)
  BY <1>1 DEF BatchesAt
<1>3. CASE setup.mode = "plain"
  <2>1. ArePlain(shards, DPSize, c * size)
    BY <1>3 DEF SplitInto, Unsorted
  <2>2. n \in Nat
    <3>1. RowsIn(shards) \in Nat
      BY <2>1 DEF ArePlain
    <3> DEFINE x == RowsIn(shards)
    <3> HIDE DEF x
    <3>2. x \div gbs \in Nat
      BY <1>1, <3>1, Division DEF x
    <3> QED BY <1>1, <3>2 DEF GlobalBatches, x
  <2>3. size % setup.mbs = 0
    BY <1>1, <1>3 DEF Acceptable
  <2>4. ASSUME NEW g \in 1..n
        PROVE  CanBeCut(BatchesAt(shards, g), setup.mbs)
    <3>1. \A s \in 1..DPSize : shards[s].elems = <<>>
      BY <2>1 DEF ArePlain
    <3>2. g \in Nat \ {0}
      BY <2>2
    <3> HIDE DEF shards, n
    <3>3. \A s \in 1..DPSize : Len(GetBatch(shards[s], g, size).rows) = size
      BY <1>1, <3>1, <3>2, GetPlain
    <3> QED BY <1>1, <1>2, <1>3, <2>3, <3>3 DEF CanBeCut
  <2> QED BY <2>2, <2>4 DEF ReadyToTrain
<1>4. CASE setup.mode # "plain"
  <2>1. AreCut(shards, DPSize, c, N)
    BY <1>4 DEF SplitInto, Unsorted
  <2>2. n = c
    <3>1. RowsIn(shards) = c * gbs
      BY <1>1, <2>1 DEF AreCut
    <3>2. 0 \in 0..(gbs - 1) /\ c * gbs + 0 = c * gbs
      BY <1>1
    <3>3. (c * gbs + 0) \div gbs = c
      BY ONLY <1>1, <3>2, DivisionOf
    <3> QED BY <1>1, <3>1, <3>2, <3>3 DEF GlobalBatches
  <2>3. ASSUME NEW g \in 1..c
        PROVE  CanBeCut(BatchesAt(shards, g), setup.mbs)
    <3>1. \A s \in 1..DPSize : Len(shards[s].micro) = c /\ Len(shards[s].micro[g]) \in Nat \ {0}
      BY <2>1 DEF AreCut
    <3> HIDE DEF shards, n
    <3>2. ASSUME NEW s \in 1..DPSize
          PROVE  /\ Len(GetBatch(shards[s], g, size).micro) = 1
                 /\ Len(GetBatch(shards[s], g, size).micro[1]) \in Nat \ {0}
      <4> DEFINE shard == shards[s]
                 mine == shard.micro[g]
                 cut == GetBatch(shard, g, size).micro
      <4>1. Len(shard.micro) = c /\ Len(mine) \in Nat \ {0}
        BY <3>1
      <4> HIDE DEF shard
      <4>2. shard.micro # <<>>
        <5>1. c # 0 /\ Len(<<>>) = 0
          BY <1>1
        <5> QED BY <4>1, <5>1
      <4>3. cut = <<mine>>
        BY <4>2, GetCut
      <4> HIDE DEF mine, cut
      <4> QED BY <4>1, <4>3 DEF cut, shard
    <3> QED BY <1>2, <1>4, <3>2 DEF CanBeCut
  <2> HIDE DEF n
  <2> QED BY <1>1, <2>2, <2>3 DEF ReadyToTrain, n
<1> QED BY <1>3, <1>4

\* ... and that of a call that computes answers can be cut as it is.
LEMMA InferenceReady ==
  ASSUME Usable(setup), NEW o \in Inference, Acceptable(o), NEW gbs, NEW c, NEW size,
         Divided(o, gbs, c, size), NEW result, SplitInto(result, o, c, size),
         NEW mbs, mbs = IF o = "score" THEN (IF setup.scoreBatch < size THEN setup.scoreBatch ELSE size)
                        ELSE setup.logprobBatch
  PROVE  /\ CanBeCut(result.shards, mbs)
         /\ o = "score" => \A w \in AllWorkers : ScoreSize(result.shards[Rank(w)]) = mbs
<1> DEFINE shards == result.shards
<1>1. /\ gbs \in Nat \ {0} /\ c \in Nat /\ size \in Nat \ {0} /\ DPSize \in Nat \ {0}
      /\ gbs = N /\ size = N \div DPSize /\ N = c * gbs
  BY DEF Divided, Inference
<1>2. c = 1
  <2>1. gbs = c * gbs
    BY <1>1
  <2>2. c # 0
    BY <1>1, <2>1
  <2>3. ~ (c >= 2)
    <3>1. SUFFICES ASSUME c >= 2 PROVE FALSE
      OBVIOUS
    <3>2. 2 * gbs <= c * gbs
      BY <1>1, <3>1, MultiplyMonotonic
    <3> QED BY <1>1, <2>1, <3>2
  <2> QED BY <1>1, <2>2, <2>3
<1>3. c * size = size
  BY <1>1, <1>2
<1>4. CASE Unsorted(o)
  <2>1. ArePlain(shards, DPSize, size)
    BY <1>3, <1>4 DEF SplitInto
  <2>2. setup.mode = "plain" /\ size % mbs = 0
    <3>1. o # "generate" /\ o # "train"
      BY DEF Inference
    <3>2. setup.mode = "plain"
      BY <1>4, <3>1 DEF Acceptable, Unsorted
    <3> QED BY <1>1, <3>1, <3>2 DEF Acceptable
  <2>3. Len(shards) = DPSize /\ \A s \in 1..DPSize : Len(shards[s].rows) = size
    BY <2>1 DEF ArePlain
  <2>4. CanBeCut(shards, mbs)
    <3> HIDE DEF shards
    <3> QED BY <1>1, <2>2, <2>3 DEF CanBeCut
  <2>5. ASSUME o = "score", NEW w \in AllWorkers
        PROVE  ScoreSize(shards[Rank(w)]) = mbs
    <3> DEFINE r == Rank(w)
    <3>1. r \in 1..DPSize
      BY WorkersAre
    <3> HIDE DEF r
    <3>2. Len(shards[r].rows) = size
      BY <2>3, <3>1
    <3> QED BY <2>5, <3>2 DEF ScoreSize, r
  <2> QED BY <2>4, <2>5
<1>5. CASE ~ Unsorted(o)
  <2>1. AreCut(shards, DPSize, 1, N)
    BY <1>2, <1>5 DEF SplitInto
  <2>2. setup.mode # "plain" /\ o # "score"
    BY <1>5 DEF Unsorted
  <2>3. Len(shards) = DPSize
        /\ \A s \in 1..DPSize : Len(shards[s].micro) = 1 /\ Len(shards[s].micro[1]) \in Nat \ {0}
    BY <2>1 DEF AreCut
  <2> QED BY <2>2, <2>3 DEF CanBeCut
<1> QED BY <1>4, <1>5

\* An acceptable call gives every worker a program that raises nothing.
LEMMA ProgramQuiet ==
  ASSUME Usable(setup), NEW o \in Operations, Acceptable(o), NEW result \in Splits(o)
  PROVE  /\ result # Raised
         /\ \A w \in AllWorkers : Quiet(Program(o, w, result.shards))
<1>1. PICK gbs, c, size : Divided(o, gbs, c, size)
  BY SizesDivide
<1>2. SplitInto(result, o, c, size)
  BY <1>1, SplitsAre
<1>3. result # Raised
  BY <1>2 DEF SplitInto
<1>4. setup.backend \in {"dtensor", "dtensor_v2", "megatron"}
  BY SetupsAssumption DEF Usable
<1>5. o \in Inference \cup {"train", "generate"}
  BY DEF Operations, Inference
<1>6. ASSUME NEW w \in AllWorkers
      PROVE  Quiet(Program(o, w, result.shards))
  <2> DEFINE shards == result.shards
             p == Program(o, w, shards)
             t1 == DTensorTrain(w, shards)
             t2 == AutomodelTrain(w, shards)
             t3 == MegatronTrain(w, shards)
             l1 == DTensorLogprobs(w, shards)
             l2 == AutomodelLogprobs(w, shards)
             l3 == MegatronLogprobs(w, shards)
             k1 == DTensorTopk(w, shards)
             k2 == AutomodelTopk(w, shards)
             k3 == MegatronTopk(w, shards)
             s1 == DTensorScore(w, shards)
             s2 == AutomodelScore(w, shards)
  <2>1. CASE o = "train"
    <3>1. ReadyToTrain(shards)
      BY <1>1, <1>2, <2>1, TrainReady
    <3>2. Quiet(t1) /\ Quiet(t2) /\ Quiet(t3)
      BY <3>1, TrainQuiet
    <3>3. p = t1 \/ p = t2 \/ p = t3
      <4> HIDE DEF t1, t2, t3, shards
      <4> QED BY <1>4, <2>1 DEF Program, t1, t2, t3
    <3> QED BY ONLY <3>2, <3>3, Zenon
  <2>2. CASE o = "generate"
    <3> DEFINE x == Item("forward", ModelGroup(w) \cap CalledBy("generate"),
                         shards[Rank(w)].rows, Widest(setup.lens))
    <3>1. p = MegatronGenerate(w, shards)
      <4> HIDE DEF shards
      <4> QED BY <2>2 DEF Program
    <3>2. MegatronGenerate(w, shards) = <<x>>
      BY DEF MegatronGenerate
    <3>3. x.kind # "raise"
      BY DEF Item
    <3> HIDE DEF x, p
    <3>4. Quiet(<<x>>)
      BY <3>3, QuietOne
    <3> QED BY ONLY <3>1, <3>2, <3>4, Zenon DEF p
  <2>3. CASE o = "score"
    <3> DEFINE mbs == IF setup.scoreBatch < size THEN setup.scoreBatch ELSE size
    <3>1. o \in Inference
      BY <2>3 DEF Inference
    <3>2. mbs = IF o = "score" THEN (IF setup.scoreBatch < size THEN setup.scoreBatch ELSE size)
                ELSE setup.logprobBatch
      BY <2>3
    <3>3. mbs \in Nat \ {0}
      <4>1. setup.scoreBatch \in Nat \ {0} /\ size \in Nat \ {0}
        BY <1>1, SetupsAssumption DEF Usable, Divided
      <4> QED BY <4>1
    <3> HIDE DEF mbs
    <3>4. CanBeCut(shards, mbs) /\ ScoreSize(shards[Rank(w)]) = mbs
      BY <1>1, <1>2, <2>3, <3>1, <3>2, InferenceReady
    <3>5. Quiet(s1) /\ Quiet(s2)
      BY <3>3, <3>4, ScoreQuiet
    <3>6. p = s1 \/ p = s2
      <4> HIDE DEF s1, s2, shards
      <4> QED BY <2>3 DEF Program, s1, s2
    <3> QED BY ONLY <3>5, <3>6, Zenon
  <2>4. CASE o \in Inference \ {"score"}
    <3> DEFINE mbs == setup.logprobBatch
    <3>1. o \in Inference
      BY <2>4
    <3>2. mbs = IF o = "score" THEN (IF setup.scoreBatch < size THEN setup.scoreBatch ELSE size)
                ELSE setup.logprobBatch
      BY <2>4
    <3> HIDE DEF mbs
    <3>3. CanBeCut(shards, mbs)
      BY <1>1, <1>2, <3>1, <3>2, InferenceReady
    <3>4. /\ Quiet(l1) /\ Quiet(l2) /\ Quiet(l3)
          /\ Quiet(k1) /\ Quiet(k2) /\ Quiet(k3)
      BY <3>3, InferenceQuiet DEF mbs
    <3> DEFINE l == LogprobsProgram(w, shards)
               ref == ReferenceProgram(w, shards)
    <3>5. Quiet(l)
      <4>1. l = l1 \/ l = l2 \/ l = l3
        <5> HIDE DEF l1, l2, l3, shards
        <5> QED BY <1>4 DEF LogprobsProgram, l1, l2, l3
      <4> QED BY ONLY <3>4, <4>1, Zenon
    <3>6. Quiet(ref)
      <4> DEFINE a == Sync("swap", {w})
                 b == Sync("restore", {w})
      <4>1. Quiet(<<a>>) /\ Quiet(<<b>>)
        BY SyncQuiet
      <4>2. ref = <<a>> \o l \o <<b>>
        BY Zenon DEF ReferenceProgram
      <4> HIDE DEF a, b, l, ref
      <4>3. Quiet(<<a>> \o l \o <<b>>)
        BY <3>5, <4>1, QuietBetween
      <4> QED BY ONLY <4>2, <4>3, Zenon
    <3>7. p = l \/ p = ref \/ p = k1 \/ p = k2 \/ p = k3
      <4>1. o \in {"get_logprobs", "get_reference_policy_logprobs", "get_topk_logits"}
        BY <2>4 DEF Inference
      <4> HIDE DEF l, ref, k1, k2, k3, shards
      <4> QED BY <1>4, <4>1 DEF Program, l, ref, k1, k2, k3
    <3> QED BY ONLY <3>4, <3>5, <3>6, <3>7, Zenon
  <2> QED BY <1>5, <2>1, <2>2, <2>3, <2>4
<1> QED BY <1>3, <1>6

-----------------------------------------------------------------------------
(* What raises                                                             *)

\* A program with an item that raises belongs to a call that is not acceptable.
IInv ==
  /\ Usable(setup)
  /\ \A w \in AllWorkers : Quiet(program[w]) \/ ~ Acceptable(op)
  /\ failed # "none" => ~ Acceptable(failed)

\* At first there are no programs.
LEMMA InitIInv == Init => IInv
<1> SUFFICES ASSUME Init PROVE IInv
  OBVIOUS
<1>1. Usable(setup)
  BY DEF Init, Usable
<1>2. \A w \in AllWorkers : Quiet(program[w])
  <2>1. \A w \in AllWorkers : program[w] = <<>>
    BY DEF Init, Empty
  <2> QED BY <2>1, QuietNone, Zenon
<1>3. failed = "none"
  BY DEF Init
<1> QED BY <1>1, <1>2, <1>3 DEF IInv

\* What is acceptable depends on the configuration and the call only.
LEMMA AcceptableStays ==
  ASSUME setup' = setup
  PROVE  /\ Usable(setup)' <=> Usable(setup)
         /\ op' = op => (Acceptable(op)' <=> Acceptable(op))
         /\ failed' = failed => (Acceptable(failed)' <=> Acceptable(failed))
         /\ failed' = op => (Acceptable(failed)' <=> Acceptable(op))
         /\ \A o : op' = o => (Acceptable(op)' <=> Acceptable(o))
         /\ \A o : failed' = o => (Acceptable(failed)' <=> Acceptable(o))
<1>1. Usable(setup)' <=> Usable(setup)
  BY DEF Usable, Refused
<1>2. ASSUME NEW o, op' = o PROVE Acceptable(op)' <=> Acceptable(o)
  BY <1>2 DEF Acceptable, N, DPSize, AxisSize, PadMultiple, Rows, Budget
<1>3. ASSUME NEW o, failed' = o PROVE Acceptable(failed)' <=> Acceptable(o)
  BY <1>3 DEF Acceptable, N, DPSize, AxisSize, PadMultiple, Rows, Budget
<1>4. ASSUME op' = op PROVE Acceptable(op)' <=> Acceptable(op)
  BY <1>4 DEF Acceptable, N, DPSize, AxisSize, PadMultiple, Rows, Budget
<1>5. ASSUME failed' = failed PROVE Acceptable(failed)' <=> Acceptable(failed)
  BY <1>5 DEF Acceptable, N, DPSize, AxisSize, PadMultiple, Rows, Budget
<1>6. ASSUME failed' = op PROVE Acceptable(failed)' <=> Acceptable(op)
  BY <1>6 DEF Acceptable, N, DPSize, AxisSize, PadMultiple, Rows, Budget
<1> QED BY <1>1, <1>2, <1>3, <1>4, <1>5, <1>6

\* A collective leaves quiet programs quiet.
LEMMA CompleteQuiet ==
  ASSUME IInv, NEW w, NEW kinds, Complete(w, kinds), setup' = setup, op' = op
  PROVE  \A v \in AllWorkers : Quiet(program[v])' \/ ~ Acceptable(op)'
<1>1. Workers = AllWorkers
  BY WorkersAre DEF IInv
<1>2. Acceptable(op)' <=> Acceptable(op)
  BY AcceptableStays
<1> SUFFICES ASSUME Acceptable(op), NEW v \in AllWorkers PROVE Quiet(program[v])'
  BY <1>2
<1> DEFINE group == Head(program[w]).group
<1>3. /\ \A u \in group : program[u] # <<>>
      /\ program' = [u \in Workers |-> IF u \in group THEN Tail(program[u]) ELSE program[u]]
  BY Zenon DEF Complete
<1> HIDE DEF group
<1>4. Quiet(program[v])
  BY DEF IInv
<1> DEFINE s == program[v]
<1>5. program'[v] = IF v \in group THEN Tail(s) ELSE s
  BY <1>1, <1>3
<1>6. v \in group => s # <<>>
  BY <1>3
<1> DEFINE r == program'[v]
<1>7. Quiet(s)
  BY <1>4
<1>8. r = IF v \in group THEN Tail(s) ELSE s
  BY <1>5
<1>9. Quiet(r)
  <2> HIDE DEF s, r
  <2> QED BY <1>6, <1>7, <1>8, QuietTail
<1> QED BY <1>9 DEF Quiet

\* Every step leaves it to calls that are not acceptable to raise.
LEMMA NextIInv == IInv /\ [Next]_vars => IInv'
<1> SUFFICES ASSUME IInv, [Next]_vars PROVE IInv'
  OBVIOUS
<1>0. /\ Usable(setup)
      /\ failed # "none" => ~ Acceptable(failed)
      /\ \A w \in AllWorkers : Quiet(program[w]) \/ ~ Acceptable(op)
      /\ Workers = AllWorkers
  BY WorkersAre DEF IInv
<1>1. ASSUME NEW o, Call(o) PROVE IInv'
  <2>1. setup' = setup /\ o \in Operations
    BY <1>1 DEF Call
  <2>2. Usable(setup)'
    BY <1>0, <2>1, AcceptableStays
  <2>3. PICK result \in Splits(o) :
          IF result = Raised
          THEN failed' = o /\ op' = op /\ program' = program
          ELSE /\ op' = o /\ failed' = failed
               /\ program' = [w \in Workers |->
                    IF w \in CalledBy(o) THEN Program(o, w, result.shards) ELSE <<>>]
    BY <1>1, Zenon DEF Call
  <2>4. CASE result = Raised
    <3>1. failed' = o /\ op' = op /\ program' = program
      BY <2>3, <2>4
    <3>2. ~ Acceptable(o)
      BY <1>0, <2>1, <2>4, ProgramQuiet, Zenon
    <3>3. (Acceptable(failed)' <=> Acceptable(o)) /\ (Acceptable(op)' <=> Acceptable(op))
      BY <2>1, <3>1, AcceptableStays
    <3>4. \A w \in AllWorkers : Quiet(program[w])' = Quiet(program[w])
      BY <3>1 DEF Quiet
    <3> QED BY <1>0, <2>2, <3>2, <3>3, <3>4 DEF IInv
  <2>5. CASE result # Raised
    <3>1. /\ op' = o /\ failed' = failed
          /\ program' = [w \in Workers |->
               IF w \in CalledBy(o) THEN Program(o, w, result.shards) ELSE <<>>]
      BY <2>3, <2>5
    <3>2. (Acceptable(op)' <=> Acceptable(o)) /\ (Acceptable(failed)' <=> Acceptable(failed))
      BY <2>1, <3>1, AcceptableStays
    <3>3. ASSUME Acceptable(o), NEW w \in AllWorkers PROVE Quiet(program[w])'
      <4> DEFINE p == Program(o, w, result.shards)
                 r == program'[w]
      <4>1. Quiet(p)
        BY <1>0, <2>1, <3>3, ProgramQuiet, Zenon
      <4>2. r = p \/ r = <<>>
        <5> HIDE DEF p
        <5>1. \A v \in AllWorkers : program'[v] =
                IF v \in CalledBy(o) THEN Program(o, v, result.shards) ELSE <<>>
          BY <1>0, <3>1
        <5> QED BY <5>1 DEF p
      <4>3. Quiet(r)
        <5> HIDE DEF p, r
        <5> QED BY ONLY <4>1, <4>2, QuietNone, Zenon
      <4> QED BY <4>3 DEF Quiet
    <3> QED BY <1>0, <2>2, <3>1, <3>2, <3>3 DEF IInv
  <2> QED BY <2>4, <2>5
<1>2. ASSUME NEW w, NEW kinds, Complete(w, kinds), setup' = setup, op' = op, failed' = failed
      PROVE  IInv'
  <2>1. \A v \in AllWorkers : Quiet(program[v])' \/ ~ Acceptable(op)'
    BY <1>2, CompleteQuiet
  <2>2. Usable(setup)' /\ (Acceptable(failed)' <=> Acceptable(failed))
    BY <1>0, <1>2, AcceptableStays
  <2> QED BY <1>0, <1>2, <2>1, <2>2 DEF IInv
<1>3. ASSUME NEW w \in AllWorkers, WorkerRaises(w) PROVE IInv'
  <2>1. Complete(w, {"raise"}) /\ setup' = setup /\ op' = op /\ failed' = op
    BY <1>3 DEF WorkerRaises
  <2>2. program[w] # <<>> /\ Head(program[w]).kind = "raise"
    BY <2>1 DEF Complete
  <2>3. ~ Quiet(program[w])
    <3> DEFINE s == program[w]
    <3>1. s # <<>> /\ Head(s).kind = "raise"
      BY <2>2
    <3> HIDE DEF s
    <3>2. ~ Quiet(s)
      BY <3>1, QuietTail
    <3> QED BY <3>2 DEF s
  <2>4. ~ Acceptable(op)
    BY <1>0, <2>3
  <2>5. Usable(setup)' /\ (Acceptable(failed)' <=> Acceptable(op))
    BY <1>0, <2>1, AcceptableStays
  <2>6. \A v \in AllWorkers : Quiet(program[v])' \/ ~ Acceptable(op)'
    BY <2>1, CompleteQuiet
  <2> QED BY <2>4, <2>5, <2>6 DEF IInv
<1>4. ASSUME Collect PROVE IInv'
  <2>1. /\ setup' = setup /\ failed' = failed /\ program' = program
        /\ \A w \in Workers : program[w] = <<>>
    BY <1>4 DEF Collect
  <2>2. Usable(setup)' /\ (Acceptable(failed)' <=> Acceptable(failed))
    BY <1>0, <2>1, AcceptableStays
  <2>3. \A w \in AllWorkers : program'[w] = <<>>
    BY <1>0, <2>1
  <2>4. \A w \in AllWorkers : Quiet(program[w])'
    BY <2>3, QuietNone, Zenon DEF Quiet
  <2> QED BY <1>0, <2>1, <2>2, <2>4 DEF IInv
<1>5. ASSUME UNCHANGED vars PROVE IInv'
  <2>1. setup' = setup /\ op' = op /\ failed' = failed /\ program' = program
    BY <1>5 DEF vars
  <2>2. Usable(setup)' /\ (Acceptable(failed)' <=> Acceptable(failed)) /\ (Acceptable(op)' <=> Acceptable(op))
    BY <1>0, <2>1, AcceptableStays
  <2>3. \A w \in AllWorkers : Quiet(program[w])' = Quiet(program[w])
    BY <2>1 DEF Quiet
  <2> QED BY <1>0, <2>1, <2>2, <2>3 DEF IInv
<1>6. ASSUME NEW w \in AllWorkers, WorkerStep(w) PROVE IInv'
  <2>1. CASE WorkerRaises(w)
    BY <1>3, <2>1
  <2>2. CASE Synchronise(w)
    BY <1>2, <2>2 DEF Synchronise
  <2>3. CASE StartGlobalBatch(w)
    BY <1>2, <2>3 DEF StartGlobalBatch
  <2>4. CASE Backward(w)
    BY <1>2, <2>4 DEF Backward
  <2>5. CASE OptimizerStep(w)
    BY <1>2, <2>5 DEF OptimizerStep
  <2>6. CASE Forward(w)
    BY <1>2, <2>6 DEF Forward
  <2>7. CASE SwapIn(w)
    BY <1>2, <2>7 DEF SwapIn
  <2>8. CASE SwapOut(w)
    BY <1>2, <2>8 DEF SwapOut
  <2> QED BY <1>6, <2>1, <2>2, <2>3, <2>4, <2>5, <2>6, <2>7, <2>8, Zenon DEF WorkerStep
<1> QED BY <1>1, <1>4, <1>5, <1>6, Zenon DEF Next

\* A call raises only for a batch that cannot be computed as configured: all
\* of the packers, splits, microbatches and programs of the three back ends do
\* what they are asked whenever the sizes divide and the rows fit the budget.
THEOREM RaisesForBadInputOnly == Spec => []OnlyBadInputRaises
<1>1. Init => IInv
  BY InitIInv
<1>2. IInv /\ [Next]_vars => IInv'
  BY NextIInv
<1>3. IInv => OnlyBadInputRaises
  BY DEF IInv, OnlyBadInputRaises
<1> QED BY <1>1, <1>2, <1>3, PTL DEF Spec

=============================================================================
