--------------------------- MODULE EpochTraining ----------------------------
(***************************************************************************)
(* The epoch loops of nemo_rl/algorithms (sft_train, dpo_train, rm_train,  *)
(* distillation_train) over the jobs of one training: a job ends when the  *)
(* training is over, when the TimeoutChecker of utils/timer.py has had the *)
(* last checkpoint saved, or in a crash, and the next one resumes from the *)
(* latest checkpoint.                                                      *)
(*                                                                         *)
(* The weights are known by the batches they were trained on, in order; a  *)
(* batch by the pass over the data, its number in it, and the number of    *)
(* steps of the weights its responses were generated with (distillation).  *)
(***************************************************************************)
EXTENDS Integers, Sequences, SequencesExt

CONSTANTS Setups,       \* algorithms and configurations
          Batches,      \* len(train_dataloader)
          Durations,    \* how long training on a batch may take
          SaveTimes,    \* how long saving a checkpoint may take
          MaxCrashes    \* bound: crashes of jobs

Workers == {"dtensor", "dtensor_v2", "megatron"}

ASSUME TrainingAssumption ==
  /\ Batches \in Nat \ {0}
  /\ Durations \subseteq Nat /\ SaveTimes \subseteq Nat
  /\ \A s \in Setups : /\ s.worker \in Workers
                       /\ s.deadline = <<>> \/ s.deadline[1] \in Nat

VARIABLES setup,
          phase,       \* of the job, or "down" or "over"
          epoch, step, total,  \* current_epoch, current_step, total_steps
          loader,      \* the data loader: the pass, and the batches yielded
          batch,       \* the batch being trained on
          weights,     \* the batches the policy has been trained on
          generation,  \* the steps of the weights the generation engine holds
          stale,       \* POLICY_GENERATION_STALE
          validated,   \* whether this step has validation metrics
          metric,      \* the step of the metric in the save state, or 0
          elapsed, times,  \* TimeoutChecker: time since the start, iteration_times
          lastSaved,   \* TimeoutChecker.last_saved
          disk,        \* the latest checkpoint, or None
          optimizer,   \* the steps the optimizer and its schedule have taken
          reference,   \* the weights of the reference model (DPO)
          crashes
vars == <<setup, phase, epoch, step, total, loader, batch, weights, generation,
          stale, validated, metric, elapsed, times, lastSaved, disk, optimizer,
          reference, crashes>>
given == <<setup, reference>>
learnt == <<weights, optimizer>>
counters == <<epoch, step, total>>
clock == <<elapsed, times, lastSaved>>

None == <<>>
Distillation == setup.algorithm = "distillation"
\* max_num_steps; only rm_train knows -1, for no limit.
Limited(n) == setup.maxSteps # -1 /\ n >= setup.maxSteps

\* The clock only matters where there is a deadline.
Later(d) == IF setup.deadline = None THEN elapsed ELSE elapsed + d

Total(seq) == FoldLeft(LAMBDA sum, t : sum + t, 0, seq)

-----------------------------------------------------------------------------
(* TimeoutChecker *)

\* Mutant: without fit_last_save_time.
CheckSaveLate(now, iterations) ==
  setup.deadline # None /\ ~ lastSaved /\ now >= setup.deadline[1]

\* check_save: at the deadline, or when the next iteration would pass it if
\* it took as long as those before it on average.
CheckSave(now, iterations) ==
  /\ setup.deadline # None
  /\ ~ lastSaved
  /\ \/ now * Len(iterations) + Total(iterations)
          >= setup.deadline[1] * Len(iterations)
     \/ now >= setup.deadline[1]

-----------------------------------------------------------------------------
Init ==
  /\ setup \in Setups
  /\ phase = "down" /\ disk = None /\ crashes = 0
  /\ epoch = 0 /\ step = 0 /\ total = 0 /\ loader = <<1, 0>> /\ batch = None
  /\ weights = <<>> /\ generation = 0 /\ stale = TRUE
  /\ validated = FALSE /\ metric = 0
  /\ elapsed = 0 /\ times = <<>> /\ lastSaved = FALSE
  /\ optimizer = 0 /\ reference = <<>>

\* The default save state, with a new policy and data loader.
DefaultState == [epoch |-> 0, step |-> 0, total |-> 0, loader |-> <<1, 0>>,
                 weights |-> <<>>, optimizer |-> 0, metric |-> 0]

\* setup: the save state and the data loader of the latest checkpoint.
LoadedState == IF disk = None THEN DefaultState ELSE disk

Resume(state) ==
  /\ epoch' = state.epoch /\ step' = state.step /\ total' = state.total
  /\ loader' = state.loader /\ metric' = state.metric

\* The validation before a new training, which refits the student's engine.
InitialValidation(validates) ==
  /\ elapsed' = IF validates /\ setup.deadline # None THEN 1 ELSE 0
  /\ generation' = IF validates THEN Len(weights') ELSE 0
  /\ stale' = (~ (Distillation /\ validates))

-----------------------------------------------------------------------------
(* The model in the workers: its weights, the state of its optimizer, and the *)
(* weights of the reference model, which only DPO has                         *)

\* Both directories of a checkpoint, or, if there is none, the pretrained model.
LoadCheckpoint == [weights |-> LoadedState.weights, optimizer |-> LoadedState.optimizer]

ReferenceOf(model) == IF setup.algorithm = "dpo" THEN model ELSE <<>>

\* DTensorPolicyWorker copies the model before it loads the checkpoint.
DTensorWorker == [model |-> LoadCheckpoint, reference |-> ReferenceOf(<<>>)]

\* DTensorPolicyWorkerV2 copies what setup_model_and_optimizer returned.
AutomodelWorker ==
  [model |-> LoadCheckpoint, reference |-> ReferenceOf(LoadCheckpoint.weights)]

\* MegatronPolicyWorker loads the pretrained model a second time.
MegatronWorker == [model |-> LoadCheckpoint, reference |-> ReferenceOf(<<>>)]

StartedWorker == CASE setup.worker = "dtensor"    -> DTensorWorker
                   [] setup.worker = "dtensor_v2" -> AutomodelWorker
                   [] setup.worker = "megatron"   -> MegatronWorker

-----------------------------------------------------------------------------
(* The loop *)

\* setup and the beginning of the loop.
StartJob ==
  /\ phase = "down"
  /\ phase' = "epoch"
  /\ Resume(LoadedState)
  /\ weights' = StartedWorker.model.weights
  /\ optimizer' = StartedWorker.model.optimizer
  /\ reference' = StartedWorker.reference
  /\ InitialValidation(setup.valAtStart /\ total' = 0)
  /\ times' = <<>> /\ lastSaved' = FALSE
  /\ batch' = None /\ validated' = FALSE
  /\ UNCHANGED <<setup, disk, crashes>>

\* The condition of the while loop.
Epochs == epoch < setup.maxEpochs /\ ~ Limited(total)

\* The training is over.
LeaveLoop ==
  /\ phase = "epoch" /\ ~ Epochs
  /\ phase' = "over"
  /\ UNCHANGED <<given, counters, loader, batch, learnt, generation, stale,
                 validated, metric, clock, disk, crashes>>

\* A loader that was restored goes on where it was saved, be it at its end.
NextBatch ==
  /\ phase = "epoch" /\ Epochs /\ loader[2] < Batches
  /\ phase' = "batch"
  /\ loader' = [loader EXCEPT ![2] = @ + 1]
  /\ batch' = <<loader[1], loader[2] + 1>>
  /\ validated' = FALSE
  /\ UNCHANGED <<given, counters, learnt, generation, stale, metric, clock,
                 disk, crashes>>

EndEpoch ==
  /\ phase = "epoch" /\ Epochs /\ loader[2] = Batches
  /\ loader' = <<loader[1] + 1, 0>>
  /\ epoch' = epoch + 1
  /\ step' = 0
  /\ UNCHANGED <<given, phase, total, batch, learnt, generation, stale,
                 validated, metric, clock, disk, crashes>>

\* The weights the engine holds after refit_policy_generation, if it was stale.
Refitted == IF stale THEN Len(weights) ELSE generation

\* distillation_train: the student's responses and the teacher's logits.
Generate ==
  /\ phase = "batch" /\ Distillation /\ Len(batch) = 2
  /\ generation' = Refitted
  /\ stale' = FALSE
  /\ batch' = Append(batch, Refitted)
  /\ UNCHANGED <<given, phase, counters, loader, learnt, validated, metric,
                 clock, disk, crashes>>

ValidationDue == setup.valPeriod > 0 /\ (total + 1) % setup.valPeriod = 0

Train ==
  /\ phase = "batch"
  /\ Distillation => Len(batch) = 3
  /\ weights' = Append(weights, batch)
  /\ optimizer' = optimizer + 1
  /\ stale' = TRUE
  /\ \E d \in Durations : elapsed' = Later(d)
  /\ phase' = IF ValidationDue THEN "validate" ELSE "save"
  /\ UNCHANGED <<given, counters, loader, batch, generation, validated, metric,
                 times, lastSaved, disk, crashes>>

Validated ==
  /\ phase = "validate"
  /\ phase' = "save"
  /\ validated' = TRUE
  /\ elapsed' = Later(1)
  /\ UNCHANGED <<given, counters, loader, batch, learnt, metric, times,
                 lastSaved, disk, crashes>>

\* The policy's loss on the validation data.
Validate ==
  /\ Validated /\ ~ Distillation
  /\ UNCHANGED <<generation, stale>>

\* distillation_train validates by rollouts, with the weights just trained.
ValidateByRollouts ==
  /\ Validated /\ Distillation
  /\ generation' = Refitted
  /\ stale' = FALSE

\* The step as it is saved: distillation_train does not start it over at the
\* end of an epoch.
SavedStep == IF Distillation THEN step + 1 ELSE (step + 1) % Batches

IsLastStep == \/ Limited(total + 1)
              \/ epoch + 1 = setup.maxEpochs /\ step + 1 = Batches

\* Mutant: the metric of an earlier validation stays.
MetricKept == IF validated THEN total + 1 ELSE metric

\* The metric of this step's validation; an outdated one is removed.
MetricSaved == IF validated THEN total + 1 ELSE 0

\* Mutant: the time limit ends the job without a checkpoint.
SaveDueBySteps(timeout) ==
  setup.enabled /\ (IsLastStep \/ (total + 1) % setup.savePeriod = 0)

SaveDue(timeout) ==
  setup.enabled /\ (IsLastStep \/ (total + 1) % setup.savePeriod = 0 \/ timeout)

\* mark_iteration
MarkIteration == IF setup.deadline = None THEN times
                 ELSE Append(times, elapsed - Total(times))

\* The policy's save_checkpoint, with an optimizer_path.
SavedModel == [weights |-> weights, optimizer |-> optimizer]

SaveCheckpoint ==
  /\ metric' = MetricSaved
  /\ disk' = [epoch |-> epoch, step |-> SavedStep, total |-> total + 1,
              loader |-> loader, weights |-> SavedModel.weights,
              optimizer |-> SavedModel.optimizer, metric |-> MetricSaved]
  /\ \E d \in SaveTimes : elapsed' = Later(d)

\* The two returns at the end of a step.
PhaseAfter(timeout) == IF timeout THEN "down"
                       ELSE IF Limited(total + 1) THEN "over" ELSE "epoch"

\* The end of a step: the checker, the checkpoint, the counters.
FinishStep ==
  /\ phase = "save"
  /\ times' = MarkIteration
  /\ LET timeout == CheckSave(elapsed, MarkIteration)
     IN  /\ lastSaved' = (lastSaved \/ timeout)
         /\ IF SaveDue(timeout) THEN SaveCheckpoint
                                ELSE UNCHANGED <<metric, disk, elapsed>>
         /\ phase' = PhaseAfter(timeout)
  /\ step' = step + 1
  /\ total' = total + 1
  /\ UNCHANGED <<given, epoch, loader, batch, learnt, generation, stale,
                 validated, crashes>>

\* A crash: what is not on disk is lost.
Crash ==
  /\ phase \notin {"down", "over"} /\ crashes < MaxCrashes
  /\ phase' = "down"
  /\ crashes' = crashes + 1
  /\ UNCHANGED <<given, counters, loader, batch, learnt, generation, stale,
                 validated, metric, clock, disk>>

JobStep == \/ LeaveLoop
           \/ NextBatch
           \/ EndEpoch
           \/ Generate
           \/ Train
           \/ Validate
           \/ ValidateByRollouts
           \/ FinishStep

Next == StartJob \/ JobStep \/ Crash

\* A job goes on, and whoever runs the training starts the next one.
Fairness == WF_vars(StartJob) /\ WF_vars(JobStep)
Spec == Init /\ [][Next]_vars /\ Fairness

-----------------------------------------------------------------------------
\* The batches of a training that is never interrupted.
Uninterrupted(n) ==
  [k \in 1..n |->
     LET place == << ((k - 1) \div Batches) + 1, ((k - 1) % Batches) + 1 >>
     IN  IF Distillation THEN Append(place, k - 1) ELSE place]

\* A checkpoint of step n holds the weights of exactly the first n batches,
\* each trained once and in order whatever was interrupted, for distillation
\* on responses of the weights just before; the optimizer has taken as many
\* steps, the loader stands behind them, and a metric is that of a validation
\* of these weights (sft.py:499-572,
\* dpo.py:618-707, rm.py:542-632, distillation.py:764-847).
CheckpointIsUninterrupted ==
  disk # None =>
    /\ disk.weights = Uninterrupted(disk.total) /\ disk.optimizer = disk.total
    /\ (disk.loader[1] - 1) * Batches + disk.loader[2] = disk.total
    /\ disk.metric \in {0, disk.total}

\* If the last iteration of a job took no longer than those before it on
\* average, the checkpoint the time limit asks for was begun before the
\* deadline (timer.py:285-308).
BeginsInTime ==
  lastSaved /\ Len(times) > 1 =>
    LET before == Front(times)
    IN  Last(times) * Len(before) <= Total(before)
          => Total(times) < setup.deadline[1]

\* The steps of the whole training.
Final == IF setup.maxSteps = -1 \/ setup.maxSteps > setup.maxEpochs * Batches
         THEN setup.maxEpochs * Batches ELSE setup.maxSteps

\* docs/guides/dpo.md:4 speaks of "a frozen reference model": that of every job
\* of a training is the one before any step (dtensor_policy_worker_v2.py:213-253).
FrozenReference ==
  setup.algorithm = "dpo" /\ phase # "down" => reference = DefaultState.weights

=============================================================================
