--------------------------- MODULE PolicyDispatch ---------------------------
(***************************************************************************)
(* The methods of Policy (nemo_rl/models/policy/lm_policy.py) and what the *)
(* workers do with their shards: the three training back ends,             *)
(* dtensor_policy_worker.py, dtensor_policy_worker_v2.py (automodel) and   *)
(* megatron_policy_worker.py.                                              *)
(*                                                                         *)
(* A call gives every worker a program: the sequence of the collectives    *)
(* it will join, each with the group of workers it waits for, in the order *)
(* the code issues them.  A collective completes when the whole group has  *)
(* arrived at it.  What a worker computes is the list of rows it computed  *)
(* it for and the weights it used.                                         *)
(***************************************************************************)
EXTENDS PackedLayout

CONSTANTS WorldSize, \* the number of GPUs, one worker each
          Setups,    \* batches and configurations a policy is used with
          MaxCalls   \* bound: calls of Policy methods

VARIABLES setup,     \* the batch and the configuration
          calls,     \* calls made
          op,        \* the method in progress, or "none"
          split,     \* the shards of the call and the order of their rows
          program,   \* per worker, the collectives it has still to join
          weights,   \* per worker, whose weights the model holds
          aside,     \* per worker, the weights use_reference_model put aside
          grads,     \* per worker, the rows in the gradient buffers
          steps,     \* the rows of each optimizer step of the call
          outputs,   \* per worker, the rows it has answered
          answer,    \* the last answer of the policy
          failed     \* the method that raised, or "none"
vars == <<setup, calls, op, split, program, weights, aside, grads, steps,
          outputs, answer, failed>>

DP == "data_parallel"
PP == "pipeline_parallel"
CP == "context_parallel"
TP == "tensor_parallel"

\* What the configurations can be: positive sizes, a batch that is not empty,
\* one of the back ends and, for packing, one of the packers.
ASSUME SetupsAssumption ==
  /\ WorldSize \in Nat \ {0}
  /\ \A s \in Setups :
       /\ s.backend \in {"dtensor", "dtensor_v2", "megatron"}
       /\ s.mode \in {"plain", "dynamic", "packed"}
       /\ s.mode = "packed" =>
            s.algorithm \in {"concatenative", "first_fit_decreasing",
                             "first_fit_shuffle", "modified_first_fit_decreasing"}
       /\ s.reward \in BOOLEAN
       /\ s.layout \in [{PP, DP, CP, TP} -> Nat \ {0}]
       /\ s.lens \in Seq(Nat \ {0}) /\ s.lens # <<>>
       /\ {s.gbs, s.mbs, s.logprobBatch, s.scoreBatch, s.round, s.fp8}
            \subseteq Nat \ {0}
       /\ s.trainTokens \in Nat /\ s.logprobTokens \in Nat

\* Policy.__init__ lays the workers out along four axes.
Axes == <<PP, DP, CP, TP>>
AxisSize == setup.layout
INSTANCE WorkerGroups

\* Configurations __init__ of the policy or of its workers refuses: sizes that
\* do not make up the cluster, dynamic batching of a pipeline, packing for
\* reward models and under context parallelism of PyTorch; Megatron needs it
\* there.
Refused(s) ==
  LET over == s.layout[PP] * s.layout[CP] * s.layout[TP]
  IN  \/ over * s.layout[DP] # WorldSize
      \/ s.mode = "dynamic" /\ s.layout[PP] > 1
      \/ s.backend # "megatron" /\ s.layout[PP] > 1
      \/ s.backend # "megatron" /\ s.mode = "packed" /\ s.layout[CP] > 1
      \/ s.backend = "megatron" /\ s.mode # "packed" /\ s.layout[CP] > 1
      \/ s.reward /\ (s.mode = "packed" \/ s.backend = "megatron")

DPSize == AxisSize[DP]
Rank(w) == Coord(w, DP) + 1

\* sequence_length_pad_multiple of Policy.__init__
PadMultiple == IF AxisSize[CP] > 1 THEN AxisSize[CP] * 2 * AxisSize[TP]
                                   ELSE AxisSize[TP]

N == Len(setup.lens)
Budget(o) == IF o = "train" THEN setup.trainTokens ELSE setup.logprobTokens

Inference == {"get_logprobs", "get_reference_policy_logprobs",
              "get_topk_logits", "score"}
\* A reward model is trained and scores; only Megatron's workers generate.
Operations ==
  IF setup.reward THEN {"train", "score"}
  ELSE (Inference \ {"score"})
       \cup (IF setup.backend = "megatron" THEN {"train", "generate"}
                                          ELSE {"train"})

\* generate and score neither sort nor pack.
Splits(o) ==
  LET gbs == IF o = "train" THEN setup.gbs ELSE N
  IN  IF o \in {"generate", "score"} \/ setup.mode = "plain"
      THEN {ShardPlain(setup.lens, gbs, DPSize)}
      ELSE IF setup.mode = "dynamic"
      THEN {ShardDynamic(setup.lens, gbs, DPSize, Budget(o), setup.round)}
      ELSE ShardPacked(setup.lens, gbs, DPSize, setup.algorithm, Budget(o),
                       PadMultiple)

\* generate leaves context parallelism a free axis.
Replicated(o) == IF o = "generate" THEN {TP, PP} ELSE {CP, TP, PP}
CalledBy(o) == Called({DP}, Replicated(o))
ReturningFor(o) == Returning({DP}, Replicated(o), Replicated(o))

-----------------------------------------------------------------------------
(* The programs of the workers.  An item is a collective: its kind, the    *)
(* group that joins it, and the rows a microbatch computes.                *)

Item(kind, group, rows, width) ==
  [kind |-> kind, group |-> group, rows |-> rows, width |-> width]
Sync(kind, group) == Item(kind, group, <<>>, 0)
RaiseAt(w) == <<Sync("raise", {w})>>

DPGroup(w)    == Along(w, {DP})
ModelGroup(w) == Along(w, {PP, CP, TP})

\* The microbatches of a batch: size is mbs or logprob_batch_size.
Microbatches(batch, size) ==
  IF setup.mode = "plain"
  THEN PlainMicrobatches(batch, size, Widest(setup.lens))
  ELSE CutMicrobatches(batch)

\* With packing all workers agree on the largest number of bins ...
AgreeOnBins == IF setup.mode = "packed" THEN <<Sync("bins", Workers)>> ELSE <<>>

\* ... and the others start over and compute dummies that count for nothing.
Dummies(batches, d) ==
  IF setup.mode # "packed" \/ Len(batches[d].micro) # 1 THEN 0
  ELSE Widest([s \in 1..Len(batches) |-> Len(batches[s].micro[1])])
       - Len(batches[d].micro[1])

Passes(kind, group, mbs) ==
  [m \in 1..Len(mbs) |-> Item(kind, group, mbs[m].rows, mbs[m].width)]

\* Microbatches and dummies of worker w, the latter with the rows the code
\* does not throw away; FSDP gathers the weights and sums the gradients over
\* the group in every one.
ShardedPasses(kind, w, group, batches, size, keepsDummies) ==
  LET mbs == Microbatches(batches[Rank(w)], size)
      Dummy(mb) == Item(kind, group, IF keepsDummies THEN mb.rows ELSE <<>>, 0)
  IN  IF mbs = Raised THEN RaiseAt(w)
      ELSE Passes(kind, group, mbs)
           \o [m \in 1..Dummies(batches, Rank(w)) |->
                 Dummy(mbs[((m - 1) % Len(mbs)) + 1])]

\* The global batches a call of train goes through: num_global_batches.
RowsIn(shards) == FoldLeft(LAMBDA n, shard : n + Len(shard.rows), 0, shards)
GlobalBatches(shards) == RowsIn(shards) \div setup.gbs

BatchesAt(shards, g) ==
  [s \in 1..DPSize |-> GetBatch(shards[s], g, setup.gbs \div DPSize)]

\* What a call of train does with one global batch after another.
EachGlobalBatch(shards, OneBatch(_)) ==
  FlattenSeq([g \in 1..GlobalBatches(shards) |-> OneBatch(BatchesAt(shards, g))])

ScoreSize(shard) == IF setup.scoreBatch < Len(shard.rows) THEN setup.scoreBatch
                                                          ELSE Len(shard.rows)

-----------------------------------------------------------------------------
(* DTensorPolicyWorker                                                     *)

\* The loop over the microbatches of a global batch, and then the dummies.
DTensorBackward(w, batches) ==
  ShardedPasses("backward", w, Workers, batches, setup.mbs, FALSE)

DTensorGlobalBatch(w, batches) ==
  <<Sync("counts", DPGroup(w))>> \o AgreeOnBins
  \o DTensorBackward(w, batches) \o <<Sync("step", Workers)>>

DTensorTrain(w, shards) ==
  <<Sync("size", DPGroup(w))>>
  \o EachGlobalBatch(shards, LAMBDA b : DTensorGlobalBatch(w, b))
  \o <<Sync("loss", DPGroup(w))>>

\* get_logprobs gathers the weights once and for all (unshard_fsdp2_model).
DTensorLogprobs(w, shards) ==
  <<Sync("unshard", Workers)>> \o AgreeOnBins
  \o ShardedPasses("forward", w, ModelGroup(w), shards, setup.logprobBatch,
                   FALSE)
\* get_topk_logits and score would answer for the dummies as well.
DTensorTopk(w, shards) ==
  AgreeOnBins
  \o ShardedPasses("forward", w, Workers, shards, setup.logprobBatch, TRUE)
DTensorScore(w, shards) ==
  <<Sync("unshard", Workers)>>
  \o ShardedPasses("forward", w, ModelGroup(w), shards,
                   ScoreSize(shards[Rank(w)]), TRUE)

-----------------------------------------------------------------------------
(* DTensorPolicyWorkerV2, through get_microbatch_iterator and              *)
(* process_global_batch of automodel/data.py                               *)

AutomodelPasses(kind, w, batches, size) ==
  AgreeOnBins \o ShardedPasses(kind, w, Workers, batches, size, FALSE)

AutomodelGlobalBatch(w, batches) ==
  <<Sync("counts", DPGroup(w))>>
  \o AutomodelPasses("backward", w, batches, setup.mbs)
  \o <<Sync("step", Workers)>>

AutomodelTrain(w, shards) ==
  <<Sync("size", DPGroup(w))>>
  \o EachGlobalBatch(shards, LAMBDA b : AutomodelGlobalBatch(w, b))
  \o <<Sync("loss", DPGroup(w))>>

AutomodelLogprobs(w, shards) ==
  AutomodelPasses("forward", w, shards, setup.logprobBatch)
AutomodelTopk(w, shards) ==
  AutomodelPasses("forward", w, shards, setup.logprobBatch)
AutomodelScore(w, shards) ==
  AutomodelPasses("forward", w, shards, ScoreSize(shards[Rank(w)]))

-----------------------------------------------------------------------------
(* MegatronPolicyWorker: the data-parallel ranks meet only in the          *)
(* optimizer, the stages of a pipeline in every microbatch and when the    *)
(* last of them sends the others its losses or answers.                    *)

\* A packed row counts as computed when its reader gets what belongs to it.
MegatronReads(reader, batch, mb) ==
  LET p == PackParameters(AxisSize[PP], AxisSize[CP], AxisSize[TP],
                          setup.sequenceParallel, setup.fp8,
                          Widest(batch.width[1]))
  IN  IF setup.mode # "packed" THEN mb
      ELSE [mb EXCEPT !.rows = [k \in 1..Len(@) |->
             IF ReadsRow(reader, mb.rows, setup.lens, p, k) THEN @[k] ELSE 0]]

MegatronPasses(kind, reader, w, batch, size) ==
  LET mbs == Microbatches(batch, size)
  IN  IF mbs = Raised THEN RaiseAt(w)
      ELSE Passes(kind, ModelGroup(w),
                  [m \in 1..Len(mbs) |-> MegatronReads(reader, batch, mbs[m])])

MegatronGlobalBatch(w, batch) ==
  <<Sync("counts", DPGroup(w))>>
  \o MegatronPasses("backward", "loss", w, batch, setup.mbs)
  \o <<Sync("step", Workers), Sync("losses", Along(w, {PP}))>>

MegatronTrain(w, shards) ==
  <<Sync("size", DPGroup(w))>>
  \o EachGlobalBatch(shards, LAMBDA b : MegatronGlobalBatch(w, b[Rank(w)]))
  \o <<Sync("loss", DPGroup(w))>>

MegatronLogprobs(w, shards) ==
  MegatronPasses("forward", "logprobs", w, shards[Rank(w)], setup.logprobBatch)
  \o <<Sync("answers", Along(w, {PP}))>>
MegatronTopk(w, shards) ==
  MegatronPasses("forward", "topk", w, shards[Rank(w)], setup.logprobBatch)
  \o <<Sync("answers", Along(w, {PP}))>>

\* generate: the engine finishes requests in any order, the worker sorts them.
MegatronGenerate(w, shards) ==
  <<Item("forward", ModelGroup(w) \cap CalledBy("generate"),
         shards[Rank(w)].rows, Widest(setup.lens))>>

-----------------------------------------------------------------------------
LogprobsProgram(w, shards) ==
  CASE setup.backend = "dtensor"    -> DTensorLogprobs(w, shards)
    [] setup.backend = "dtensor_v2" -> AutomodelLogprobs(w, shards)
    [] setup.backend = "megatron"   -> MegatronLogprobs(w, shards)

\* get_reference_policy_logprobs: get_logprobs inside use_reference_model,
\* which also puts the weights back when get_logprobs raises.
ReferenceProgram(w, shards) ==
  <<Sync("swap", {w})>> \o LogprobsProgram(w, shards)
  \o <<Sync("restore", {w})>>

Program(o, w, shards) ==
  CASE o = "train" ->
         (CASE setup.backend = "dtensor"    -> DTensorTrain(w, shards)
            [] setup.backend = "dtensor_v2" -> AutomodelTrain(w, shards)
            [] setup.backend = "megatron"   -> MegatronTrain(w, shards))
    [] o = "get_logprobs" -> LogprobsProgram(w, shards)
    [] o = "get_reference_policy_logprobs" -> ReferenceProgram(w, shards)
    [] o = "get_topk_logits" ->
         (CASE setup.backend = "dtensor"    -> DTensorTopk(w, shards)
            [] setup.backend = "dtensor_v2" -> AutomodelTopk(w, shards)
            [] setup.backend = "megatron"   -> MegatronTopk(w, shards))
    [] o = "score" ->
         (IF setup.backend = "dtensor" THEN DTensorScore(w, shards)
                                       ELSE AutomodelScore(w, shards))
    [] o = "generate" -> MegatronGenerate(w, shards)

-----------------------------------------------------------------------------
Policy0 == [of |-> "policy", steps |-> 0]
Reference == [of |-> "reference", steps |-> 0]
AllWorkers == 0..(WorldSize - 1)
Empty(x) == [w \in AllWorkers |-> x]

Init ==
  /\ setup \in {s \in Setups : ~ Refused(s)}
  /\ calls = 0 /\ op = "none" /\ split = Raised /\ failed = "none"
  /\ program = Empty(<<>>) /\ weights = Empty(Policy0) /\ aside = Empty(<<>>)
  /\ grads = Empty(<<>>) /\ steps = <<>> /\ outputs = Empty(<<>>)
  /\ answer = <<>>

\* A method of Policy splits its batch and calls the workers, or raises.
Call(o) ==
  /\ op = "none" /\ failed = "none" /\ calls < MaxCalls
  /\ o \in Operations
  /\ calls' = calls + 1
  /\ answer' = <<>>
  /\ \E result \in Splits(o) :
       IF result = Raised
       THEN failed' = o /\ UNCHANGED <<op, split, program, steps, outputs>>
       ELSE /\ op' = o
            /\ split' = result
            /\ program' = [w \in Workers |->
                 IF w \in CalledBy(o) THEN Program(o, w, result.shards)
                                      ELSE <<>>]
            /\ steps' = <<>>
            /\ outputs' = Empty(<<>>)
            /\ UNCHANGED failed
  /\ UNCHANGED <<setup, weights, aside, grads>>

\* The group of worker w has arrived at a collective of this kind.
Complete(w, kinds) ==
  LET item == Head(program[w])
  IN  /\ failed = "none"
      /\ program[w] # <<>>
      /\ item.kind \in kinds
      /\ w = CHOOSE v \in item.group : \A u \in item.group : v <= u
      /\ \A v \in item.group :
           /\ program[v] # <<>>
           /\ Head(program[v]).kind = item.kind
           /\ Head(program[v]).group = item.group
      /\ program' = [v \in Workers |-> IF v \in item.group
                                       THEN Tail(program[v]) ELSE program[v]]

\* Changes the value of f at the members of the group.
AtGroup(f, w, New(_)) ==
  [v \in Workers |-> IF v \in Head(program[w]).group THEN New(v) ELSE f[v]]

\* Collectives that only agree on numbers: sizes, bins, losses, answers.
Synchronise(w) ==
  /\ Complete(w, {"size", "bins", "unshard", "losses", "loss", "answers"})
  /\ UNCHANGED <<setup, calls, op, split, weights, aside, grads, steps,
                 outputs, answer, failed>>

\* The numbers of valid sequences and tokens; then optimizer.zero_grad().
StartGlobalBatch(w) ==
  /\ Complete(w, {"counts"})
  /\ grads' = AtGroup(grads, w, LAMBDA v : <<>>)
  /\ UNCHANGED <<setup, calls, op, split, weights, aside, steps, outputs,
                 answer, failed>>

\* Forward and backward: the gradients of the rows are added.
Backward(w) ==
  /\ Complete(w, {"backward"})
  /\ grads' = AtGroup(grads, w, LAMBDA v : grads[v] \o Head(program[v]).rows)
  /\ UNCHANGED <<setup, calls, op, split, weights, aside, steps, outputs,
                 answer, failed>>

\* optimizer.step(), on the gradients of all data-parallel ranks.
OptimizerStep(w) ==
  /\ Complete(w, {"step"})
  /\ steps' = Append(steps, FlattenSeq([s \in 1..DPSize |->
       grads[CHOOSE v \in Workers : Rank(v) = s]]))
  /\ weights' = AtGroup(weights, w,
                        LAMBDA v : [weights[v] EXCEPT !.steps = @ + 1])
  /\ UNCHANGED <<setup, calls, op, split, aside, grads, outputs, answer, failed>>

Forward(w) ==
  /\ Complete(w, {"forward"})
  /\ outputs' = AtGroup(outputs, w, LAMBDA v :
       outputs[v] \o [k \in 1..Len(Head(program[v]).rows) |->
                        [row |-> Head(program[v]).rows[k], by |-> weights[v]]])
  /\ UNCHANGED <<setup, calls, op, split, weights, aside, grads, steps,
                 answer, failed>>

\* use_reference_model, entered ...
SwapIn(w) ==
  /\ Complete(w, {"swap"})
  /\ aside' = [aside EXCEPT ![w] = weights[w]]
  /\ weights' = [weights EXCEPT ![w] = Reference]
  /\ UNCHANGED <<setup, calls, op, split, grads, steps, outputs, answer, failed>>

\* ... and left.
SwapOut(w) ==
  /\ Complete(w, {"restore"})
  /\ weights' = [weights EXCEPT ![w] = aside[w]]
  /\ aside' = [aside EXCEPT ![w] = <<>>]
  /\ UNCHANGED <<setup, calls, op, split, grads, steps, outputs, answer, failed>>

\* A worker raises; ray.get raises it again, and the run ends.
WorkerRaises(w) ==
  /\ Complete(w, {"raise"})
  /\ failed' = op
  /\ UNCHANGED <<setup, calls, op, split, weights, aside, grads, steps,
                 outputs, answer>>

\* The results are collected, concatenated and put back in order.
Collect ==
  /\ op # "none" /\ failed = "none"
  /\ \A w \in Workers : program[w] = <<>>
  /\ answer' =
       LET all == Gathered(outputs, ReturningFor(op))
       IN  [op   |-> op,
            rows |-> IF op = "train" \/ setup.mode = "plain"
                        \/ op \in {"generate", "score"}
                     THEN all ELSE Reorder(all, split.order)]
  /\ op' = "none"
  /\ UNCHANGED <<setup, calls, split, program, weights, aside, grads, steps,
                 outputs, failed>>

WorkerStep(w) ==
  \/ Synchronise(w)
  \/ StartGlobalBatch(w)
  \/ Backward(w)
  \/ OptimizerStep(w)
  \/ Forward(w)
  \/ SwapIn(w)
  \/ SwapOut(w)
  \/ WorkerRaises(w)

Next == \/ \E o \in Inference \cup {"train", "generate"} : Call(o)
        \/ \E w \in AllWorkers : WorkerStep(w)
        \/ Collect

\* Workers go on as long as they can, and so does the process that waits.
Fairness == /\ \A w \in AllWorkers : WF_vars(WorkerStep(w))
            /\ WF_vars(Collect)
Spec == Init /\ [][Next]_vars /\ Fairness

-----------------------------------------------------------------------------
Rows == 1..N
\* Each of the rows once.
EachOnce(seq, rows) ==
  /\ Len(seq) = Cardinality(rows)
  /\ {seq[k] : k \in 1..Len(seq)} = rows

\* Sorting, packing, sharding, microbatching, replication and reordering
\* cancel out: answer i is that of row i, by the weights asked for; and all
\* workers are left with the policy's weights after the same steps
\* (lm_policy.py:277-473, batched_data_dict.py:228-255).
AnswersAligned ==
  answer # <<>> =>
    /\ answer.op # "train" =>
         answer.rows = [i \in Rows |->
           [row |-> i,
            by  |-> IF answer.op = "get_reference_policy_logprobs"
                    THEN Reference ELSE weights[0]]]
    /\ \A w \in Workers : weights[w] = weights[0] /\ weights[w].of = "policy"

\* The optimizer step of a global batch uses each of its rows once, however
\* they were dealt to ranks and microbatches, and no row of another; a call of
\* train that returns has gone through the whole batch
\* (lm_policy.py:475-575, the loops of the three workers).
StepUsesItsBatch ==
  /\ \A g \in 1..Len(steps) :
       EachOnce(steps[g], ((g - 1) * setup.gbs + 1)..(g * setup.gbs))
  /\ answer # <<>> /\ answer.op = "train" => Len(steps) * setup.gbs = N

\* No microbatch exceeds the token budget, and none is cut narrower than a
\* row in it (batched_data_dict.py:591-668, data/packing/algorithms.py).
WithinBudget ==
  \A w \in Workers : \A k \in 1..Len(program[w]) :
    LET item == program[w][k]
        padded == [i \in Rows |-> RoundUp(setup.lens[i], PadMultiple)]
    IN  item.rows # <<>> /\ op \notin {"generate", "score"} =>
          CASE setup.mode = "plain" -> TRUE
            [] setup.mode = "dynamic" ->
                 /\ Len(item.rows) * item.width <= Budget(op)
                 /\ \A r \in 1..Len(item.rows) :
                      setup.lens[item.rows[r]] <= item.width
            [] setup.mode = "packed" -> Load(item.rows, padded) <= Budget(op)

\* A call raises only for a batch that cannot be computed as configured: a row
\* longer than the budget, sizes that do not divide, or a reward model asked
\* to score with microbatches its batch was never cut into.
Acceptable(o) ==
  LET gbs == IF o = "train" THEN setup.gbs ELSE N
      mbs == CASE o = "train" -> setup.mbs
               [] o = "score" -> IF setup.scoreBatch < N \div DPSize
                                 THEN setup.scoreBatch ELSE N \div DPSize
               [] OTHER -> setup.logprobBatch
      Wide(i) == IF setup.mode = "packed" THEN RoundUp(setup.lens[i], PadMultiple)
                 ELSE IF RoundUp(setup.lens[i], setup.round) < Widest(setup.lens)
                 THEN RoundUp(setup.lens[i], setup.round) ELSE Widest(setup.lens)
  IN  /\ N % gbs = 0 /\ gbs % DPSize = 0
      /\ \/ o = "generate"
         \/ setup.mode = "plain" /\ (gbs \div DPSize) % mbs = 0
         \/ /\ setup.mode # "plain" /\ o # "score"
            /\ \A i \in Rows : Wide(i) <= Budget(o)
OnlyBadInputRaises == failed # "none" => ~ Acceptable(failed)

\* Every call returns or raises: all members of a group come to the same
\* collectives in the same order, whatever their shards look like.
CallsReturn == op # "none" ~> (op = "none" \/ failed # "none")

=============================================================================
