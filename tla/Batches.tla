------------------------------ MODULE Batches -------------------------------
(***************************************************************************)
(* BatchedDataDict of nemo_rl/distributed/batched_data_dict.py: a batch    *)
(* split into global batches, the global batches into data-parallel        *)
(* shards, the shards into microbatches, and the answers put back in       *)
(* order.                                                                  *)
(*                                                                         *)
(* A batch is the sequence lens of the lengths of its rows; a row is named *)
(* by its index.  A shard is a record of its rows and, for each global     *)
(* batch, of its microbatches (pairs <<start, end>> counted from the start *)
(* of the global batch), their widths, and its number of rows.             *)
(***************************************************************************)
EXTENDS Packing

Widest(lens) == FoldLeft(LAMBDA w, len : IF len > w THEN len ELSE w, 0, lens)

\* _get_padded_seqlen, and the rounding of dynamic batching.
RoundUp(len, multiple) == ((len + multiple - 1) \div multiple) * multiple

\* The asserts every split starts with.
CannotSplit(lens, gbs, shards) ==
  Len(lens) % gbs # 0 \/ gbs % shards # 0

\* The rows of global batch g, from 1.
Chunk(order, g, size) == SubSeq(order, (g - 1) * size + 1, g * size)

NoMicro == [micro |-> <<>>, width |-> <<>>, elems |-> <<>>]
Shard(rows, cut) ==
  [rows |-> rows, micro |-> cut.micro, width |-> cut.width, elems |-> cut.elems]

\* Mutant: the batch is dealt without regard to the global batches.
ShardRowsOfAll(order, gbs, shards) ==
  [s \in 1..shards |-> Chunk(order, s, Len(order) \div shards)]

\* The rows of each shard: its part of every global batch.
ShardRows(order, gbs, shards) ==
  LET size == gbs \div shards
  IN  [s \in 1..shards |->
        FlattenSeq([g \in 1..(Len(order) \div gbs) |->
                      Chunk(Chunk(order, g, gbs), s, size)])]

\* shard_by_batch_size without an argument that cuts microbatches.
ShardPlain(lens, gbs, shards) ==
  IF CannotSplit(lens, gbs, shards) THEN Raised
  ELSE LET rows == ShardRows(Indices(lens), gbs, shards)
       IN  [shards |-> [s \in 1..shards |-> Shard(rows[s], NoMicro)],
            order  |-> Indices(lens)]

\* allow_uneven_shards: the last shards may be smaller, or empty.
ShardUneven(lens, shards) ==
  LET n    == Len(lens)
      size == (n + shards - 1) \div shards
      AtMost(k) == IF k < n THEN k ELSE n
  IN  [s \in 1..shards |-> SubSeq(Indices(lens), AtMost((s - 1) * size) + 1,
                                                 AtMost(s * size))]

-----------------------------------------------------------------------------
(* Dynamic batching: rows of about equal length side by side in the shards. *)

\* Every shard gets one of as many neighbours as there are shards.
EverySo(seq, s, shards) ==
  [k \in 1..(Len(seq) \div shards) |-> seq[(k - 1) * shards + s]]
Strided(seq, shards) ==
  FlattenSeq([s \in 1..shards |-> EverySo(seq, s, shards)])
RowsOf(g, gbs) == ((g - 1) * gbs + 1)..(g * gbs)
DynamicOrder(lens, gbs, shards) ==
  FlattenSeq([g \in 1..(Len(lens) \div gbs) |->
                Strided(ShortestFirst(RowsOf(g, gbs), lens), shards)])

\* The width of each position of a global batch: that of the longest of the
\* shards, rounded up but not beyond the batch.
PositionWidths(rows, lens, g, size, shards, round) ==
  [k \in 1..size |->
    LET longest == Widest([s \in 1..shards |-> lens[rows[s][(g-1) * size + k]]])
        padded  == RoundUp(longest, round)
    IN  IF padded < Widest(lens) THEN padded ELSE Widest(lens)]

\* Mutant: the tokens are counted without the padding of the shorter rows.
CutByTokens(widths, budget) ==
  LET Add(acc, k) ==
        LET start  == Last(acc.micro)[1]
            tokens == FoldLeft(LAMBDA n, w : n + w, 0,
                               SubSeq(widths, start + 1, k))
        IN  IF tokens <= budget
            THEN [micro |-> Append(Front(acc.micro), <<start, k>>),
                  width |-> Append(Front(acc.width), widths[k])]
            ELSE [micro |-> Append(acc.micro, <<k - 1, k>>),
                  width |-> Append(acc.width, widths[k])]
  IN  FoldLeft(Add, [micro |-> << <<0, 0>> >>, width |-> <<0>>],
               Indices(widths))

\* Positions are added to a microbatch while it stays within the budget.
AddPosition(acc, k, widths, budget) ==
  LET start == Last(acc.micro)[1]
      width == IF widths[k] > Last(acc.width) THEN widths[k]
                                              ELSE Last(acc.width)
  IN  IF (k - start) * width <= budget
      THEN [micro |-> Append(Front(acc.micro), <<start, k>>),
            width |-> Append(Front(acc.width), width)]
      ELSE [micro |-> Append(acc.micro, <<k - 1, k>>),
            width |-> Append(acc.width, widths[k])]
CutByWidth(widths, budget) ==
  FoldLeft(LAMBDA acc, k : AddPosition(acc, k, widths, budget),
           [micro |-> << <<0, 0>> >>, width |-> <<0>>], Indices(widths))

ShardDynamic(lens, gbs, shards, budget, round) ==
  LET order  == DynamicOrder(lens, gbs, shards)
      size   == gbs \div shards
      rows   == ShardRows(order, gbs, shards)
      widths == [g \in 1..(Len(lens) \div gbs) |->
                  PositionWidths(rows, lens, g, size, shards, round)]
      cuts   == [g \in 1..Len(widths) |-> CutByWidth(widths[g], budget)]
      cut    == [micro |-> [g \in 1..Len(cuts) |-> cuts[g].micro],
                 width |-> [g \in 1..Len(cuts) |-> cuts[g].width],
                 elems |-> <<>>]
  IN  IF CannotSplit(lens, gbs, shards) THEN Raised
      ELSE IF \E g \in 1..Len(widths) : Widest(widths[g]) > budget THEN Raised
      ELSE [shards |-> [s \in 1..shards |-> Shard(rows[s], cut)],
            order  |-> order]

-----------------------------------------------------------------------------
(* Sequence packing: bin b of a global batch goes to shard b modulo shards. *)

BinsOf(bins, s, shards) ==
  [k \in 1..((Len(bins) + shards - s) \div shards) |-> bins[(k - 1) * shards + s]]

\* Consecutive pairs <<start, end>>, one per bin.
Bounds(bins) ==
  [b \in 1..Len(bins) |->
     << Len(FlattenSeq(SubSeq(bins, 1, b - 1))),
        Len(FlattenSeq(SubSeq(bins, 1, b))) >>]

PackedShard(packed, lens, pad, s, shards) ==
  LET mine == [g \in 1..Len(packed) |-> BinsOf(packed[g], s, shards)]
      padded == [i \in 1..Len(lens) |-> RoundUp(lens[i], pad)]
  IN  Shard(FlattenSeq([g \in 1..Len(mine) |-> FlattenSeq(mine[g])]),
            [micro |-> [g \in 1..Len(mine) |-> Bounds(mine[g])],
             width |-> [g \in 1..Len(mine) |->
                          [b \in 1..Len(mine[g]) |-> Load(mine[g][b], padded)]],
             elems |-> [g \in 1..Len(mine) |-> Len(FlattenSeq(mine[g]))]])

PackedBatch(packed, lens, pad, shards) ==
  LET parts == [s \in 1..shards |-> PackedShard(packed, lens, pad, s, shards)]
  IN  [shards |-> parts,
       order  |-> FlattenSeq([s \in 1..shards |-> parts[s].rows])]

\* The bins of global batch g, by the rows of the batch.
PaddedLens(lens, g, gbs, pad) ==
  [k \in 1..gbs |-> RoundUp(lens[(g - 1) * gbs + k], pad)]
Shifted(bins, before) ==
  [b \in 1..Len(bins) |-> [k \in 1..Len(bins[b]) |-> before + bins[b][k]]]
BinsOfGlobal(lens, g, gbs, shards, algorithm, budget, pad) ==
  {Shifted(bins, (g - 1) * gbs) :
     bins \in Pack(algorithm, PaddedLens(lens, g, gbs, pad), budget, shards)}

\* The possible results: one, unless the packer shuffles.
ShardPacked(lens, gbs, shards, algorithm, budget, pad) ==
  LET chunks == Len(lens) \div gbs
      Bins(g) == BinsOfGlobal(lens, g, gbs, shards, algorithm, budget, pad)
      ways == {p \in [1..chunks -> UNION {Bins(g) : g \in 1..chunks}] :
                 \A g \in 1..chunks : p[g] \in Bins(g)}
  IN  IF CannotSplit(lens, gbs, shards) THEN {Raised}
      ELSE {IF \E g \in 1..chunks : packed[g] = Raised THEN Raised
            ELSE PackedBatch(packed, lens, pad, shards) : packed \in ways}

-----------------------------------------------------------------------------
\* get_batch: the part of a shard that belongs to global batch g.
GetBatch(shard, g, size) ==
  LET before == IF shard.elems = <<>> THEN (g - 1) * size
                ELSE FoldLeft(LAMBDA n, k : n + k, 0,
                              SubSeq(shard.elems, 1, g - 1))
      count  == IF shard.elems = <<>> THEN size ELSE shard.elems[g]
      Only(seq) == IF seq = <<>> THEN <<>> ELSE <<seq[g]>>
  IN  [rows  |-> SubSeq(shard.rows, before + 1, before + count),
       micro |-> Only(shard.micro), width |-> Only(shard.width),
       elems |-> Only(shard.elems)]

\* The two iterators over cut microbatches; they assert that there is one cut.
CutMicrobatches(batch) ==
  IF Len(batch.micro) # 1 THEN Raised
  ELSE [m \in 1..Len(batch.micro[1]) |->
          [rows  |-> SubSeq(batch.rows, batch.micro[1][m][1] + 1,
                                        batch.micro[1][m][2]),
           width |-> batch.width[1][m]]]

\* make_microbatch_iterator, for rows as wide as the batch.
PlainMicrobatches(batch, size, width) ==
  IF Len(batch.rows) % size # 0 THEN Raised
  ELSE [m \in 1..(Len(batch.rows) \div size) |->
          [rows  |-> Chunk(batch.rows, m, size), width |-> width]]

\* Mutant: the inverse permutation.
ReorderBackwards(answers, order) == [i \in 1..Len(answers) |-> answers[order[i]]]

\* reorder_data: the answer whose index is the smallest comes first.
Reorder(answers, order) ==
  LET at == ShortestFirst(1..Len(order), order)
  IN  [i \in 1..Len(answers) |-> answers[at[i]]]

=============================================================================
