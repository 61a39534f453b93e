------------------------------ MODULE SyncGRPO ------------------------------
(***************************************************************************)
(* Synchronous GRPO: grpo_train in nemo_rl/algorithms/grpo.py, with        *)
(* dynamic sampling, the refit of a colocated generation engine, and runs  *)
(* that are killed and resume from the latest checkpoint.                  *)
(*                                                                         *)
(* One thread drives everything.  What can go wrong is in its state: the   *)
(* flag that says the engine's weights are stale, the cache of prompts     *)
(* that dynamic sampling carries from batch to batch, the counters and the *)
(* dataloader position that a resumed run takes up again, and the GPU      *)
(* memory that policy and engine share.                                    *)
(*                                                                         *)
(* Weights are represented by the set of prompts they were trained on.     *)
(***************************************************************************)
EXTENDS Integers, FiniteSets, Sequences, SequencesExt

CONSTANTS
  Modes,           \* the values of use_dynamic_sampling to check
  NumPrompts,      \* num_prompts_per_step
  BatchSize,       \* the dataloader's batch with dynamic sampling
  MaxGenBatches,   \* dynamic_sampling_max_gen_batches
  EpochBatches,    \* len(dataloader)
  MaxEpochs,       \* max_num_epochs
  StepLimits,      \* the values of max_num_steps to check
  ValPeriod,       \* val_period, 0 when validation is off
  ValAtStart,      \* val_at_start
  SavePeriod,      \* save_period, 0 when checkpointing is disabled
  MaxRuns          \* bound on the runs

ASSUME SyncAssumption ==
  /\ Modes \subseteq BOOLEAN
  /\ NumPrompts \in Nat \ {0}
  /\ BatchSize \in Nat \ {0}
  /\ MaxGenBatches \in Nat \ {0}
  /\ EpochBatches \in Nat \ {0}
  /\ MaxEpochs \in Nat
  /\ StepLimits \subseteq Nat
  /\ ValPeriod \in Nat
  /\ ValAtStart \in BOOLEAN
  /\ SavePeriod \in Nat
  /\ MaxRuns \in Nat \ {0}

VARIABLES
  dynamic,     \* use_dynamic_sampling
  maxSteps,    \* max_num_steps
  pc,          \* where the training loop is
  goal,        \* what the engine is being prepared for
  epoch,       \* current_epoch
  step,        \* current_step, within the epoch
  total,       \* total_steps
  pos,         \* batches the dataloader has yielded in this epoch
  numGen,      \* dynamic_sampling_num_gen_batches
  cache,       \* batch_cache: usable prompts, in the order they came
  batch,       \* the prompts of the training step
  policy,      \* the policy's weights
  engine,      \* the weights the engine was given: none, or one
  stale,       \* POLICY_GENERATION_STALE
  policyMem,   \* what of the policy is on the GPU
  engineMem,   \* what of the engine is on the GPU
  saved,       \* the latest checkpoint: none, or one
  run          \* number of the current run

config == <<dynamic, maxSteps>>
counters == <<epoch, step, total, pos>>
sampling == <<numGen, cache, batch>>
memory == <<policyMem, engineMem>>
vars == <<config, pc, goal, counters, sampling, policy, engine, stale,
          memory, saved, run>>

Prompt == [epoch : Nat, batch : Nat, no : Nat]

PolicyParts == {"model", "optimizer"}
EngineParts == {"weights", "kv_cache"}

Pcs == {"setup", "epoch", "fetch", "prepare", "wakeWeights", "transfer",
        "offload", "wakeCache", "wake", "generate", "filter", "logprobs",
        "train", "save", "done", "failed"}
Goals == {"rollout", "validation", "initial"}

\* What grpo_train reads back from a checkpoint.
SaveState == [epoch : Nat, step : Nat, total : Nat, pos : Nat,
              policy : SUBSET Prompt]

Init ==
  /\ dynamic \in Modes
  /\ maxSteps \in StepLimits
  /\ pc = "setup"
  /\ goal = "rollout"
  /\ epoch = 0 /\ step = 0 /\ total = 0 /\ pos = 0
  /\ numGen = 0 /\ cache = <<>> /\ batch = {}
  /\ policy = {} /\ engine = {} /\ stale = TRUE
  /\ policyMem = {} /\ engineMem = {}
  /\ saved = {}
  /\ run = 1

TypeOK ==
  /\ dynamic \in BOOLEAN
  /\ maxSteps \in Nat
  /\ pc \in Pcs
  /\ goal \in Goals
  /\ epoch \in 0..MaxEpochs
  /\ step \in 0..EpochBatches
  /\ total \in 0..maxSteps
  /\ pos \in 0..EpochBatches
  /\ numGen \in 0..(MaxGenBatches + 1)
  /\ cache \in Seq(Prompt)
  /\ batch \subseteq Prompt
  /\ policy \subseteq Prompt
  /\ \A w \in engine : w \subseteq Prompt
  /\ Cardinality(engine) <= 1
  /\ stale \in BOOLEAN
  /\ policyMem \subseteq PolicyParts
  /\ engineMem \subseteq EngineParts
  /\ saved \subseteq SaveState
  /\ Cardinality(saved) <= 1
  /\ run \in 1..MaxRuns

Goto(next) == pc' = next

-----------------------------------------------------------------------------
(* The start of a run: setup, and grpo_train up to its loop.               *)

\* Prepare the engine for what it is to generate.
Prepare(for) ==
  /\ goal' = for
  /\ Goto("prepare")

\* Counters and dataloader position come from the latest checkpoint; cache,
\* stale flag and engine start afresh.
StartRun(from) ==
  /\ epoch' = from.epoch
  /\ step' = from.step
  /\ total' = from.total
  /\ pos' = from.pos
  /\ policy' = from.policy
  /\ stale' = TRUE
  /\ engine' = {}
  /\ policyMem' = PolicyParts
  /\ engineMem' = {}
  /\ IF ValAtStart /\ from.step = 0
       THEN Prepare("initial")
       ELSE Goto("epoch") /\ UNCHANGED goal

Fresh == [epoch |-> 0, step |-> 0, total |-> 0, pos |-> 0, policy |-> {}]

\* Mutant: the dataloader of a resumed run starts its epoch again.
SetupWithoutDataloader ==
  /\ pc = "setup"
  /\ \E from \in IF saved = {} THEN {Fresh} ELSE saved :
       StartRun([from EXCEPT !.pos = 0])
  /\ UNCHANGED <<config, sampling, saved, run>>

Setup ==
  /\ pc = "setup"
  /\ \E from \in IF saved = {} THEN {Fresh} ELSE saved : StartRun(from)
  /\ UNCHANGED <<config, sampling, saved, run>>

\* The run is killed and started again; what it had in memory is lost.
Crash ==
  /\ pc # "setup"
  /\ run < MaxRuns
  /\ run' = run + 1
  /\ Goto("setup")
  /\ UNCHANGED <<config, goal, counters, sampling, policy, engine, stale,
                 memory, saved>>

-----------------------------------------------------------------------------
(* The epochs and the batches of the dataloader.                           *)

\* while current_epoch < max_num_epochs and total_steps < max_num_steps
BeginEpoch ==
  /\ pc = "epoch"
  /\ epoch < MaxEpochs /\ total < maxSteps
  /\ numGen' = 0
  /\ cache' = <<>>
  /\ Goto("fetch")
  /\ UNCHANGED <<config, goal, counters, batch, policy, engine, stale, memory,
                 saved, run>>

NoMoreEpochs ==
  /\ pc = "epoch"
  /\ ~(epoch < MaxEpochs /\ total < maxSteps)
  /\ Goto("done")
  /\ UNCHANGED <<config, goal, counters, sampling, policy, engine, stale,
                 memory, saved, run>>

Fetch ==
  /\ pc = "fetch"
  /\ pos < EpochBatches
  /\ pos' = pos + 1
  /\ Prepare("rollout")
  /\ UNCHANGED <<config, epoch, step, total, sampling, policy, engine, stale,
                 memory, saved, run>>

\* Mutant: the step counter of the epoch is not reset.
EndEpochKeepsStep ==
  /\ pc = "fetch"
  /\ pos = EpochBatches
  /\ epoch' = epoch + 1
  /\ pos' = 0
  /\ Goto("epoch")
  /\ UNCHANGED <<config, goal, step, total, sampling, policy, engine, stale,
                 memory, saved, run>>

\* The dataloader is exhausted; prompts in the cache are given up.
EndEpoch ==
  /\ pc = "fetch"
  /\ pos = EpochBatches
  /\ epoch' = epoch + 1
  /\ step' = 0
  /\ pos' = 0
  /\ Goto("epoch")
  /\ UNCHANGED <<config, goal, total, sampling, policy, engine, stale, memory,
                 saved, run>>

-----------------------------------------------------------------------------
(* Preparing the engine: refit_policy_generation when the flag says its    *)
(* weights are stale (as it does at the start), otherwise a wake-up.       *)

\* A step that changes nothing but GPU memory.
Moves(policyParts, engineParts, next) ==
  /\ policyMem' = policyParts
  /\ engineMem' = engineParts
  /\ Goto(next)
  /\ UNCHANGED <<config, goal, counters, sampling, policy, engine, stale,
                 saved, run>>

OffloadBeforeRefit ==
  /\ pc = "prepare"
  /\ stale
  /\ Moves(policyMem \ {"optimizer"}, engineMem, "wakeWeights")

WakeWeights ==
  /\ pc = "wakeWeights"
  /\ Moves(policyMem, engineMem \cup {"weights"}, "transfer")

TransferWeights ==
  /\ pc = "transfer"
  /\ engine' = {policy}
  /\ Goto("offload")
  /\ UNCHANGED <<config, goal, counters, sampling, policy, stale, memory,
                 saved, run>>

\* A transfer that is not confirmed raises and ends the run.
RefitFails ==
  /\ pc = "transfer"
  /\ Moves(policyMem, engineMem, "failed")

OffloadAfterRefit ==
  /\ pc = "offload"
  /\ Moves({}, engineMem, "wakeCache")

WakeCache ==
  /\ pc = "wakeCache"
  /\ engineMem' = engineMem \cup {"kv_cache"}
  /\ stale' = FALSE
  /\ Goto("generate")
  /\ UNCHANGED <<config, goal, counters, sampling, policy, engine, policyMem,
                 saved, run>>

\* Mutant: nothing is offloaded when no refit is needed.
OffloadNothing ==
  /\ pc = "prepare"
  /\ ~stale
  /\ Moves(policyMem, engineMem, "wake")

OffloadForGeneration ==
  /\ pc = "prepare"
  /\ ~stale
  /\ Moves({}, engineMem, "wake")

WakeEngine ==
  /\ pc = "wake"
  /\ Moves(policyMem, EngineParts, "generate")

-----------------------------------------------------------------------------
(* Generation and dynamic_sampling.                                        *)

\* Rollouts; finish_generation puts the engine to sleep.
Rollouts ==
  /\ pc = "generate"
  /\ goal = "rollout"
  /\ numGen' = numGen + 1
  /\ engineMem' = {}
  /\ Goto("filter")
  /\ UNCHANGED <<config, goal, counters, cache, batch, policy, engine, stale,
                 policyMem, saved, run>>

Validate ==
  /\ pc = "generate"
  /\ goal # "rollout"
  /\ Moves(policyMem, {}, IF goal = "initial" THEN "epoch" ELSE "save")

\* n prompts of the batch that was just rolled out.  Which of them have
\* rewards that differ makes no difference here, only how many.
OfBatch(n) == [i \in 1..n |-> [epoch |-> epoch, batch |-> pos, no |-> i]]

Filtered(kept, newCache, newBatch, next) ==
  /\ pc = "filter"
  /\ dynamic = kept
  /\ cache' = newCache
  /\ batch' = newBatch
  /\ Goto(next)
  /\ UNCHANGED <<config, goal, counters, numGen, policy, engine, stale, memory,
                 saved, run>>

TakeBatch == Filtered(FALSE, cache, ToSet(OfBatch(NumPrompts)), "logprobs")

\* Prompts whose rewards are all equal are dropped, the others join the cache.
\* When it holds enough for a step, the first of them are trained on ...
EnoughPrompts(n) ==
  /\ Len(cache) + n >= NumPrompts
  /\ Filtered(TRUE, cache \o OfBatch(n),
              ToSet(SubSeq(cache \o OfBatch(n), 1, NumPrompts)), "logprobs")

\* ... otherwise another batch is rolled out ...
TooFewPrompts(n) ==
  /\ Len(cache) + n < NumPrompts
  /\ numGen <= MaxGenBatches
  /\ Filtered(TRUE, cache \o OfBatch(n), batch, "fetch")

\* ... up to a limit.
SamplingRaises(n) ==
  /\ Len(cache) + n < NumPrompts
  /\ numGen > MaxGenBatches
  /\ Filtered(TRUE, cache \o OfBatch(n), batch, "failed")

DynamicSampling ==
  \E n \in 0..BatchSize :
    EnoughPrompts(n) \/ TooFewPrompts(n) \/ SamplingRaises(n)

-----------------------------------------------------------------------------
(* Training, validation, saving.                                           *)

\* The step count is a multiple of a period, when there is one.
Due(period) == period > 0 /\ (total + 1) % period = 0

\* prepare_for_lp_inference and the log probabilities.
Logprobs ==
  /\ pc = "logprobs"
  /\ Moves(policyMem \cup {"model"}, engineMem, "train")

\* prepare_for_training and policy.train.
Trained(flag) ==
  /\ pc = "train"
  /\ policyMem' = PolicyParts
  /\ stale' = flag
  /\ policy' = policy \cup batch
  /\ IF Due(ValPeriod) THEN Prepare("validation")
                       ELSE Goto("save") /\ UNCHANGED goal
  /\ UNCHANGED <<config, counters, sampling, engine, engineMem, saved, run>>

\* Mutant: the flag keeps its value.
TrainKeepsFlag == Trained(stale)

Train == Trained(TRUE)

\* Mutant: the last step of the last epoch is not recognised.
LastByStepsOnly == total + 1 >= maxSteps

IsLastStep ==
  \/ total + 1 >= maxSteps
  \/ epoch + 1 = MaxEpochs /\ step + 1 = EpochBatches

\* A deadline that would be missed (early) forces a save and ends the run.
Saves(early) == SavePeriod > 0 /\ (IsLastStep \/ Due(SavePeriod) \/ early)

\* Mutant: the cache outlives the step.
EndStepKeepsCache(early) ==
  /\ UNCHANGED cache
  /\ numGen' = 0
  /\ batch' = {}
  /\ step' = step + 1
  /\ total' = total + 1
  /\ Goto(IF early \/ total + 1 >= maxSteps THEN "done" ELSE "fetch")

EndStep(early) ==
  /\ cache' = <<>>
  /\ numGen' = 0
  /\ batch' = {}
  /\ step' = step + 1
  /\ total' = total + 1
  /\ Goto(IF early \/ total + 1 >= maxSteps THEN "done" ELSE "fetch")

\* Module Checkpoint says how a checkpoint reaches the disk; here it is there.
Save(early) ==
  /\ pc = "save"
  /\ Saves(early)
  /\ policyMem' = PolicyParts
  /\ saved' = {[epoch |-> epoch, step |-> step + 1, total |-> total + 1,
                pos |-> pos, policy |-> policy]}
  /\ EndStep(early)
  /\ UNCHANGED <<config, goal, epoch, pos, policy, engine, stale, engineMem,
                 run>>

SkipSave(early) ==
  /\ pc = "save"
  /\ ~Saves(early)
  /\ EndStep(early)
  /\ UNCHANGED <<config, goal, epoch, pos, policy, engine, stale, memory,
                 saved, run>>

Next ==
  \/ Setup \/ Crash
  \/ BeginEpoch \/ NoMoreEpochs \/ Fetch \/ EndEpoch
  \/ OffloadBeforeRefit \/ WakeWeights \/ TransferWeights \/ RefitFails
  \/ OffloadAfterRefit \/ WakeCache \/ OffloadForGeneration \/ WakeEngine
  \/ Rollouts \/ Validate \/ TakeBatch \/ DynamicSampling
  \/ Logprobs \/ Train
  \/ \E early \in BOOLEAN : Save(early) \/ SkipSave(early)

Spec == Init /\ [][Next]_vars

-----------------------------------------------------------------------------
\* Rollouts and validations always run on the policy's current weights,
\* although they are transferred only when a flag, set and reset in five
\* places of the loop, says so.
FreshRollouts == pc = "generate" => engine = {policy}

\* Colocated policy and engine never need the same GPU memory: the key-value
\* cache is there only when nothing of the policy is, and the engine's weights
\* never meet the optimizer, across refits, plain wake-ups, validations and
\* batches that dynamic sampling found too small.
GpuShared ==
  /\ "kv_cache" \in engineMem => policyMem = {}
  /\ "weights" \in engineMem => "optimizer" \notin policyMem

\* No prompt is trained on twice, whatever dynamic sampling carries from batch
\* to batch and wherever a run was killed and resumed, and each step trains on
\* exactly num_prompts_per_step of them.
TrainedOnce ==
  /\ pc = "train" => batch \cap policy = {} /\ Cardinality(batch) = NumPrompts
  /\ pc = "fetch" => Cardinality(policy) = NumPrompts * total

\* Without dynamic sampling no batch is skipped either: the weights were
\* trained on all that the dataloader has yielded, also after a resume.
NothingSkipped ==
  ~dynamic /\ pc = "fetch" =>
    policy = {[epoch |-> e, batch |-> b, no |-> n] :
                e \in 0..epoch - 1, b \in 1..EpochBatches, n \in 1..NumPrompts}
             \cup {[epoch |-> epoch, batch |-> b, no |-> n] :
                     b \in 1..pos, n \in 1..NumPrompts}

\* When training ends, because it is complete or because of a deadline, its
\* last weights are in the latest checkpoint.  The exception is dynamic
\* sampling that runs out of epochs: the last batch is recognised by comparing
\* the steps of the epoch with its batches, of which there are more.
FinalWeightsSaved ==
  /\ pc = "done"
  /\ SavePeriod > 0
  /\ total > 0
  /\ ~(dynamic /\ epoch = MaxEpochs)
  => \E c \in saved : c.policy = policy
=============================================================================
