------------------------------ MODULE Packing -------------------------------
(***************************************************************************)
(* The sequence packers of nemo_rl/data/packing/algorithms.py: how the     *)
(* sequences of a batch are put into bins of bounded capacity, and how     *)
(* the number of bins is brought to a multiple of the data-parallel size.  *)
(*                                                                         *)
(* lens is the sequence of the lengths; a sequence is named by its index,  *)
(* a bin is the sequence of the indices in it.  Raised stands for the      *)
(* ValueErrors of the packers.                                             *)
(***************************************************************************)
EXTENDS Integers, Sequences, FiniteSets, SequencesExt

Raised == <<>>

Indices(lens) == [i \in 1..Len(lens) |-> i]

\* The tokens in a bin.
Load(bin, lens) == FoldLeft(LAMBDA sum, i: sum + lens[i], 0, bin)

\* Python's sort of some indices, for an order (a set of pairs) that has no
\* ties: the place of an index is the number of those before it.
SortsBefore(i, indices, order) == {j \in indices : <<j, i>> \in order}
Sorted(indices, order) ==
  [k \in 1..Cardinality(indices) |->
     CHOOSE i \in indices : Cardinality(SortsBefore(i, indices, order)) = k - 1]

\* Mutant: a sequence that fills a bin is refused.
TooLongOrEqual(lens, cap) == \E i \in 1..Len(lens) : lens[i] >= cap

\* _validate_sequence_lengths
TooLong(lens, cap) == \E i \in 1..Len(lens) : lens[i] > cap

-----------------------------------------------------------------------------
Fits(i, bin, lens, cap) == Load(bin, lens) + lens[i] <= cap

\* ConcatenativePacker: in order, a new bin whenever the next does not fit.
PlaceNext(bins, i, lens, cap) ==
  IF bins # <<>> /\ Fits(i, Last(bins), lens, cap)
  THEN Append(Front(bins), Append(Last(bins), i))
  ELSE Append(bins, <<i>>)
Concatenative(lens, cap) ==
  FoldLeft(LAMBDA bins, i : PlaceNext(bins, i, lens, cap), <<>>, Indices(lens))

\* FirstFitPacker, for the sequences in the given order.
PlaceFirst(bins, i, lens, cap) ==
  LET b == SelectInSeq(bins, LAMBDA bin : Fits(i, bin, lens, cap))
  IN  IF b = 0 THEN Append(bins, <<i>>)
               ELSE [bins EXCEPT ![b] = Append(@, i)]
FirstFit(order, lens, cap) ==
  FoldLeft(LAMBDA bins, i : PlaceFirst(bins, i, lens, cap), <<>>, order)

\* FirstFitDecreasingPacker: longest first, of equals the last one first.
Decreasing(lens) ==
  LET all == 1..Len(lens)
  IN  Sorted(all, {p \in all \X all : \/ lens[p[1]] > lens[p[2]]
                                      \/ lens[p[1]] = lens[p[2]] /\ p[1] > p[2]})

-----------------------------------------------------------------------------
(* ModifiedFirstFitDecreasingPacker: large, medium, small and tiny         *)
(* sequences in five phases.                                               *)

IsMedium(len, cap) == 2 * len <= cap /\ 3 * len > cap

\* Large and medium sequences from the longest on, the others from the
\* shortest; each large one opens a bin.
LongestFirst(set, lens) ==
  Sorted(set, {p \in set \X set : \/ lens[p[1]] > lens[p[2]]
                                  \/ lens[p[1]] = lens[p[2]] /\ p[1] < p[2]})
ShortestFirst(set, lens) ==
  Sorted(set, {p \in set \X set : \/ lens[p[1]] < lens[p[2]]
                                  \/ lens[p[1]] = lens[p[2]] /\ p[1] < p[2]})
Classified(lens, cap) ==
  LET all    == 1..Len(lens)
      large  == LongestFirst({i \in all : 2 * lens[i] > cap}, lens)
      Small(i) == 3 * lens[i] <= cap /\ 6 * lens[i] > cap
  IN  [bins   |-> [k \in 1..Len(large) |-> <<large[k]>>],
       medium |-> LongestFirst({i \in all : IsMedium(lens[i], cap)}, lens),
       small  |-> ShortestFirst({i \in all : Small(i)}, lens),
       tiny   |-> ShortestFirst({i \in all : 6 * lens[i] <= cap}, lens)]

\* Phase 2: one medium sequence, the longest that fits, to each large bin.
WithMedium(acc, bin, lens, cap) ==
  LET m == SelectInSeq(acc.medium, LAMBDA i : Fits(i, bin, lens, cap))
  IN  IF m = 0
      THEN [acc EXCEPT !.bins = Append(@, bin)]
      ELSE [acc EXCEPT !.bins = Append(@, Append(bin, acc.medium[m])),
                       !.medium = RemoveAt(@, m)]
AddMedium(start, lens, cap) ==
  FoldLeft(LAMBDA acc, bin : WithMedium(acc, bin, lens, cap),
           [start EXCEPT !.bins = <<>>], start.bins)

\* Phase 3: from the last bin to the first, the shortest small sequence and
\* the longest that fits beside it, to a bin without a medium one.
WithSmall(acc, bin, lens, cap) ==
  LET room  == cap - Load(bin, lens)
      small == acc.small
      Skipped ==
        \/ \E k \in 1..Len(bin) : IsMedium(lens[bin[k]], cap)
        \/ Len(small) < 2
        \/ lens[small[1]] + lens[small[2]] > room
      \* The last of the sequences that fits beside the first.
      k == SelectLastInSeq(Tail(small),
                           LAMBDA i : lens[i] <= room - lens[Head(small)])
  IN  IF Skipped
      THEN [acc EXCEPT !.bins = <<bin>> \o @]
      ELSE IF k = 0
      THEN [acc EXCEPT !.bins = <<bin>> \o @, !.small = Tail(@)]
      ELSE [acc EXCEPT
             !.bins = <<Append(Append(bin, Head(small)), Tail(small)[k])>> \o @,
             !.small = RemoveAt(Tail(small), k)]
AddSmall(start, lens, cap) ==
  FoldLeft(LAMBDA acc, bin : WithSmall(acc, bin, lens, cap),
           [start EXCEPT !.bins = <<>>], Reverse(start.bins))

\* What is left, from the longest on.
Leftovers(start, lens) ==
  LET items == (start.medium \o start.small) \o start.tiny
      order == LongestFirst(1..Len(items),
                            [k \in 1..Len(items) |-> lens[items[k]]])
  IN  [bins |-> start.bins,
       rest |-> [k \in 1..Len(order) |-> items[order[k]]]]

\* Phase 4: bin by bin, the longest of the rest that fits, again and again.
\* What did not fit when it was passed over does not fit later: one pass.
TakeIfFits(acc, i, lens, cap) ==
  IF Fits(i, acc.bin, lens, cap) THEN [acc EXCEPT !.bin = Append(@, i)]
                                 ELSE [acc EXCEPT !.rest = Append(@, i)]
Filled(bin, rest, lens, cap) ==
  FoldLeft(LAMBDA acc, i : TakeIfFits(acc, i, lens, cap),
           [bin |-> bin, rest |-> <<>>], rest)
FillNext(acc, bin, lens, cap) ==
  LET Add(done) == [bins |-> Append(acc.bins, done.bin), rest |-> done.rest]
  IN  Add(Filled(bin, acc.rest, lens, cap))
FillGreedily(start, lens, cap) ==
  FoldLeft(LAMBDA acc, bin : FillNext(acc, bin, lens, cap),
           [start EXCEPT !.bins = <<>>], start.bins)

\* Phase 5: the leftovers, each into the emptiest of the new bins if it fits
\* there; the new bins are kept in the order of their loads. The first of them
\* is there from the start, and thrown away if it stays empty.
Insert(bins, bin, lens) ==
  LET k == SelectLastInSeq(bins, LAMBDA b : Load(b, lens) <= Load(bin, lens))
  IN  InsertAt(bins, k + 1, bin)
PlaceEmptiest(bins, i, lens, cap) ==
  IF Fits(i, Head(bins), lens, cap)
  THEN Insert(Tail(bins), Append(Head(bins), i), lens)
  ELSE Insert(bins, <<i>>, lens)
NewBins(rest, lens, cap) ==
  FoldLeft(LAMBDA bins, i : PlaceEmptiest(bins, i, lens, cap), << <<>> >>, rest)
PackLeftovers(start, lens, cap) ==
  IF start.rest = <<>> THEN start.bins
  ELSE start.bins \o NewBins(start.rest, lens, cap)

ModifiedFirstFitDecreasing(lens, cap) ==
  PackLeftovers(
    FillGreedily(
      Leftovers(AddSmall(AddMedium(Classified(lens, cap), lens, cap),
                         lens, cap), lens), lens, cap), lens, cap)

-----------------------------------------------------------------------------
\* The number of bins _adjust_bin_count aims at.
TargetCount(count, min, multiple) ==
  LET atLeast == IF count < min THEN min ELSE count
  IN  ((atLeast + multiple - 1) \div multiple) * multiple

\* _adjust_bin_count: each new bin takes the last sequence of the first bin,
\* in the order of the sizes the bins had, that has one to spare.
Split(acc, bySize) ==
  LET k == SelectInSeq(bySize, LAMBDA b : Len(acc[b]) > 1)
      b == bySize[k]
  IN  IF acc = Raised \/ k = 0 THEN Raised
      ELSE Append([acc EXCEPT ![b] = Front(@)], <<Last(acc[b])>>)
SplitAgain(bins, bySize, more) ==
  FoldLeft(LAMBDA acc, n : Split(acc, bySize), bins, [n \in 1..more |-> n])
BySize(bins) == Decreasing([b \in 1..Len(bins) |-> Len(bins[b])])
AdjustBinCount(bins, min, multiple) ==
  LET target == TargetCount(Len(bins), min, multiple)
  IN  IF Len(FlattenSeq(bins)) < target THEN Raised
      ELSE SplitAgain(bins, BySize(bins), target - Len(bins))

\* get_packer(...).pack: the possible results, one unless the order is random.
Pack(algorithm, lens, cap, shards) ==
  LET raw == CASE algorithm = "concatenative" -> {Concatenative(lens, cap)}
               [] algorithm = "first_fit_decreasing" ->
                    {FirstFit(Decreasing(lens), lens, cap)}
               [] algorithm = "first_fit_shuffle" ->
                    {FirstFit(order, lens, cap) :
                       order \in SetToSeqs(1..Len(lens))}
               [] algorithm = "modified_first_fit_decreasing" ->
                    {ModifiedFirstFitDecreasing(lens, cap)}
  IN  IF TooLong(lens, cap) THEN {Raised}
      ELSE {AdjustBinCount(bins, shards, shards) : bins \in raw}

=============================================================================
