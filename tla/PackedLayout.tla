---------------------------- MODULE PackedLayout ----------------------------
(***************************************************************************)
(* Megatron's packed microbatches, token by token: how rows are laid end   *)
(* to end, padded, dealt to the ranks of a context-parallel group, and how *)
(* losses, log-probabilities and top-k logits are read back                *)
(* (nemo_rl/models/megatron/common.py, nemo_rl/distributed/model_utils.py, *)
(* SequencePackingLossWrapper of nemo_rl/algorithms/loss_functions.py).    *)
(*                                                                         *)
(* The token at position i of row r is <<r, i>>.  What the model computes  *)
(* at a token is named by the token.  A layout is a record: cp is the size *)
(* of the context-parallel group, row the multiple a row is padded to, all *)
(* that of the whole, to its fixed length or 0, split what the kernels     *)
(* divide a rank's tokens by.                                              *)
(***************************************************************************)
EXTENDS Batches

Pad == <<0, 0>>
Tokens(r, lens) == [i \in 1..lens[r] |-> <<r, i>>]
PadTo(seq, len) == seq \o [i \in 1..(len - Len(seq)) |-> Pad]
Min2(a, b) == IF a < b THEN a ELSE b

\* _get_pack_sequence_parameters_for_megatron; longest is the widest bin of the
\* batch, fp8 the divisor of FP8 kernels, or 1.
PackParameters(pp, cp, tp, sequenceParallel, fp8, longest) ==
  LET parts == IF sequenceParallel THEN tp ELSE 1
      row == (IF cp > 1 THEN 2 * cp ELSE 1) * parts
      all == IF fp8 > 1 THEN fp8 * row ELSE 1
  IN  [cp |-> cp, row |-> row, all |-> all, split |-> parts * fp8,
       to |-> IF pp > 1 THEN RoundUp(longest, all) ELSE 0]

-----------------------------------------------------------------------------
(* _pack_sequences_for_megatron                                            *)

\* cu_seqlens_padded: where row k ends; the last one takes all of the padding.
Ends(rows, lens, p) ==
  LET sum == [k \in 0..Len(rows) |->
                FoldLeft(LAMBDA n, r : n + RoundUp(lens[r], p.row), 0,
                         SubSeq(rows, 1, k))]
  IN  [sum EXCEPT ![Len(rows)] = IF p.to > 0 THEN p.to ELSE RoundUp(@, p.all)]

PaddedRow(rows, lens, p, k) ==
  LET ends == Ends(rows, lens, p)
  IN  PadTo(Tokens(rows[k], lens), ends[k] - ends[k - 1])

\* _get_tokens_on_this_cp_rank: one chunk from the front, one from the back.
OnRank(seq, cp, rank) ==
  LET size == Len(seq) \div (2 * cp)
      Part(k) == SubSeq(seq, k * size + 1, (k + 1) * size)
  IN  IF cp = 1 THEN seq ELSE Part(rank) \o Part(2 * cp - 1 - rank)

\* all_input_ids, and input_ids_cp_sharded of each rank.
Whole(rows, lens, p) ==
  FlattenSeq([k \in 1..Len(rows) |-> PaddedRow(rows, lens, p, k)])
Sharded(rows, lens, p) ==
  [rank \in 0..(p.cp - 1) |->
     FlattenSeq([k \in 1..Len(rows) |->
                   OnRank(PaddedRow(rows, lens, p, k), p.cp, rank)])]

-----------------------------------------------------------------------------
(* Reading the output                                                      *)

\* AllGatherCPTensor.forward: the halves of each rank's part, back in order.
AllGather(parts, cp) ==
  LET Half(rank) == (Len(parts[rank]) + 1) \div 2
      Early(rank) == SubSeq(parts[rank], 1, Half(rank))
      Late(rank)  == SubSeq(parts[rank], Half(rank) + 1, Len(parts[rank]))
  IN  IF cp = 1 THEN parts[0]
      ELSE FlattenSeq([k \in 1..cp |-> Early(k - 1)]
                      \o [k \in 1..cp |-> Late(cp - k)])

\* What a rank holds of row k, and of the targets it is compared with.
LocalRow(rows, lens, p, k, rank) ==
  LET ends == Ends(rows, lens, p)
  IN  SubSeq(Sharded(rows, lens, p)[rank],
             ends[k - 1] \div p.cp + 1, ends[k] \div p.cp)

Roll(seq) == Append(Tail(seq), Head(seq))

\* Logits meet targets; shapes that differ raise, and nothing is answered.
Meet(logits, targets) ==
  IF Len(logits) # Len(targets) THEN <<>>
  ELSE [i \in 1..Len(logits) |-> <<logits[i], targets[i]>>]

Scored(rows, lens, p, k, targets) ==
  AllGather([rank \in 0..(p.cp - 1) |->
               Meet(LocalRow(rows, lens, p, k, rank),
                    OnRank(targets, p.cp, rank))], p.cp)

\* from_parallel_logits_to_logprobs_packed_sequences: targets from the packed
\* batch, rolled row by row.
PackedLogprobs(rows, lens, p, k) ==
  LET ends == Ends(rows, lens, p)
      target == SubSeq(Whole(rows, lens, p), ends[k - 1] + 1, ends[k])
      scored == Scored(rows, lens, p, k, Roll(target))
  IN  SubSeq(scored, 1, Min2(Len(scored) - 1, Widest(lens) - 1))

\* SequencePackingLossWrapper and from_parallel_logits_to_logprobs: targets
\* from the unpacked batch, cut to the padded length of the row, rolled, and
\* padded to the logits.
PackedLoss(rows, lens, p, k) ==
  LET ends == Ends(rows, lens, p)
      width == ends[k] - ends[k - 1]
      data == PadTo(Tokens(rows[k], lens), Widest(lens))
      target == SubSeq(data, 1, Min2(width, Len(data)))
      scored == Scored(rows, lens, p, k, PadTo(Roll(target), width))
  IN  SubSeq(scored, 1, Len(target) - 1)

\* collection_fn of get_topk_logits.
PackedTopk(rows, lens, p, k) ==
  LET gathered == FlattenSeq([j \in 1..Len(rows) |->
        AllGather([rank \in 0..(p.cp - 1) |->
                     LocalRow(rows, lens, p, j, rank)], p.cp)])
      start == Ends(rows, lens, p)[k - 1]
  IN  SubSeq(gathered, start + 1, start + lens[rows[k]])

\* The reader gets for row k what the model computed at the tokens of row k,
\* compared with the tokens that follow; the stages of a pipeline exchange as
\* much as they expect, and the tokens of a rank can be split as they have to.
ReadsRow(reader, rows, lens, p, k) ==
  LET r == rows[k]
      Own(seq) == /\ Len(seq) >= lens[r] - 1
                  /\ \A i \in 1..(lens[r] - 1) :
                       seq[i] = << <<r, i>>, <<r, i + 1>> >>
  IN  /\ p.to > 0 => Len(Whole(rows, lens, p)) = p.to
      /\ \A rank \in 0..(p.cp - 1) :
           Len(Sharded(rows, lens, p)[rank]) % p.split = 0
      /\ CASE reader = "logprobs" -> Own(PackedLogprobs(rows, lens, p, k))
           [] reader = "loss"     -> Own(PackedLoss(rows, lens, p, k))
           [] reader = "topk"     -> PackedTopk(rows, lens, p, k) = Tokens(r, lens)

=============================================================================
