# NeMo-RL in TLA+

This directory specifies the control logic of NeMo-RL (`src/nemo_rl`): what its
threads, actors and files do, in which order, and what holds of them whatever
the order is. TLC checks the modules on small instances, and TLAPS proves
theorems about them for every value of the constants. Tensor arithmetic, text
and logging are left out throughout.

Contents: [the system](#the-system) · [modules](#the-modules-and-the-code) ·
[runs](#the-runs) · [fairness](#fairness) · [proofs](#proofs) ·
[disagreements](#where-code-and-documentation-disagree) ·
[not modelled](#what-is-not-modelled) · [plan](#plan)

## The system

NeMo-RL post-trains language models with reinforcement learning: prompts are
sampled, a generation engine (vLLM or SGLang) rolls out responses, an
environment rewards them, and a policy is trained on them by GRPO. After every
step the weights of the engine are replaced by those of the policy (a *refit*).
A controller process runs the algorithm; policy, engine and environments are Ray
actors. The controller is either synchronous (`grpo_train`) or asynchronous
(`async_grpo_train`), in which case rollouts run beside training.

| Component (source) | State | Operations | Hard behaviour | What makes it correct |
|---|---|---|---|---|
| Replay buffer (`algorithms/async_utils.py`, `ReplayBuffer`) | three parallel lists, last target, lock | push, sample, clear | capacity; removal by position; ageing | lists stay aligned; a sample returns the oldest groups meant for the step, each once |
| Trajectory collector (`async_utils.py`, `AsyncTrajectoryCollector`) | three events, weight version, semaphore, set of threads, reserved targets | collection loop, workers, `set_weight_version`, `pause`/`resume`, `prepare_for_refit`/`resume_after_refit` | three kinds of threads; state read before a lock and used under it; rollouts that raise | permits and reservations balance; labels stay in the age window; the collector is woken by updates |
| Asynchronous loop (`algorithms/grpo.py`, `async_grpo_train`) | step, weight version, batch | wait for the buffer, sample, train, refit, validate, save | submits calls it does not wait for; stalls on the buffer; exceptions | every step trains on exactly `num_prompts_per_step` unused groups of its window and publishes one version; training finishes |
| Checkpoint manager (`utils/checkpoint.py`) | `tmp_step_N`, `step_N`, `old_step_N` on disk | init, finalize, prune, latest, best | crash between or inside file system operations; overrides | a run can always resume; nothing saved is lost; the best are kept; the directory grows by nothing but what kills leave behind |
| Synchronous loop (`grpo.py`, `grpo_train`) | epochs, steps, batch cache, stale flag | the same in one thread, dynamic sampling | cache across iterations; resume in the middle of an epoch | every prompt group is trained on at most once; generation never uses stale weights |
| Other loops (`sft.py`, `dpo.py`, `rm.py`, `distillation.py`) | epoch and step counters, engine flag of distillation | train, validate, save, end of an epoch | save states that disagree on the end of an epoch; jobs that end at a deadline or crash | a checkpoint is that of an uninterrupted training; training comes to its end |
| Timers (`utils/timer.py`, `TimeoutChecker`) | time since the start, iteration times, fired or not | `check_save`, `mark_iteration` | an estimate of the next iteration; fires once | the last save begins before the deadline |
| Policy and its workers (`models/policy`) | weights, gradients, reference weights put aside | train, log-probabilities (policy and reference), top-k, score, generate | collectives once per microbatch on shards that differ; dummy microbatches | answers in the order of the rows; a step uses its global batch once; nobody waits for a collective the others do not join |
| Batches (`distributed/batched_data_dict.py`), packing (`data/packing`) | columns of equal length, cuts of a shard into microbatches | shard, slice, iterate, reorder, pack | sorting, remainders, token budgets, padding | nothing is lost or duplicated; budgets hold |
| Worker groups (`distributed/worker_groups.py`, `named_sharding.py`) | workers along named axes | dispatch, collection | sharded, replicated and free axes | every shard goes to every worker of its replica and one result comes back |
| Rollouts (`experience/rollouts.py`) | conversations, active samples, environment states | turns of a batch; one coroutine per sample | a shrinking active set, grouping by task, truncation, termination | a conversation gets its own answers, rewards and states; the limit holds |
| Engines (`models/generation/vllm`, `sglang`) | queue and consumer task per sample; the weights | generate by shards, generate asynchronously, load weights | a time limit races an answer; workers that fail | every sample ends, and for a reason |
| Weight transfer (`utils/packed_tensor.py`, `models/policy/utils.py`, `vllm_backend.py`, `grpo.py` `refit_policy_generation`) | two buffers and a socket; rings of streams; HTTP requests | produce, consume, acknowledge | buffers packed again while they are read; both sides cut groups by themselves; ranks that fail | every engine rank loads the bytes of each parameter; a refit ends |
| Virtual cluster and the creation of worker groups (`distributed/virtual_cluster.py`, `worker_groups.py`), set-up (`setup` of each algorithm, `Policy`, `VllmGeneration`, the workers' constructors) | placement groups, workers on bundles, master address and port | divide GPUs, reserve, place, come up, refuse | nodes that join late, ports taken meanwhile, bundles in any order, two constructors in two threads | ranks sit where their addresses say; what fits comes up, what is refused fails |
| Evaluation (`evals/eval.py`, `environments`) | batch, responses, scores | generate, score, count | results in any order; scores matched by position | the sum is that of the responses |
| Losses, model back ends, data, logging | | | tensors, strings, external services | |

**How they interact in the asynchronous case.** The training loop holds handles
of two actors. It *submits* calls to the collector (`start_collection`,
`set_weight_version`, `pause`, `resume`, `prepare_for_refit`,
`resume_after_refit`, `get_dataloader_state`), which the actor executes one at a
time in the order of submission; it waits for the answers of `prepare_for_refit`
and `get_dataloader_state` only. It calls the buffer (`sample`) and waits. Inside
the collector, the collection thread claims a *target* (the training step a
batch of prompts is meant for), starts one worker thread per prompt, and the
workers push their groups into the buffer. The threads share the collector's
fields: partly under locks, partly through events, partly without either. When
the training loop returns, the actors are killed.

**How they interact elsewhere.** In every other loop one thread drives everything.
It hands a batch to the policy or the engine, which splits it over worker groups
(Batches, Packing, WorkerGroups); the workers of a group compute in lockstep, tied
together by collectives (PolicyDispatch); the results are concatenated and put
back in the order of the rows. A rollout alternates calls of the engine and of
the environments (Rollouts), and between training and the next rollout the
weights travel from policy workers to engine ranks (WeightTransfer). Before any of
this, `setup` divides the GPUs, worker groups reserve theirs and come up
(JobSetup), and a program whose job ended early is launched again (Programs).

## The modules and the code

`PROJECT.json` maps every definition that models code to its lines.

**ReplayBuffer** is the buffer as the set of labelled groups
`[no, ver, tgt]`: order of arrival, generation weight version, target weight
version. One method is one action, since the actor executes one at a time.

**ReplayBufferLists** is the buffer as the code keeps it: three lists that are
popped position by position. It implements ReplayBuffer, with arbitrary clients
(checked, and proved in `Stores_proofs`).

**TrajectoryCollector** (extends ReplayBuffer) models the collector actor. A step
is what a thread does between two points where another thread can see or
disturb it.

| Variables | Code |
|---|---|
| `col` | the collection thread: where `_collection_loop`/`_process_batch` is, and its locals (`ver` = `generation_weight_version`, `last` = the buffer's answer, `tgt`, `idx` = `prompt_idx`, `slot` = the thread being started) |
| `worker` | one record per live worker thread: its place in `_run_prompt_group_worker` and its arguments |
| `running`, `manualCleared`, `refitCleared`, `limitCleared` | `running` and the three `threading.Event`s |
| `curVersion`, `warnedVersion` | `current_weight_version`, `_last_limit_warning_version` |
| `permits`, `inflight`, `generating` | `_inflight_sema`, `_inflight_threads`, `_generating_targets` |
| `calls`, `busy`, `answered` | the actor's queue, the call it is in the middle of, and whether the call the trainer blocks on has returned |
| `fetched` | the position of the dataloader |
| `claimed`, `failures` | history variables, read by no guard other than the bound on failures |

**AsyncGRPO** (extends TrajectoryCollector) adds the training loop (`tpc`, `step`,
`version`, `engine` = the version of the weights the engine holds, `batch`) and is
the composition. `Up` says that the loop has not returned: every action of the
collector needs it. **StepwiseTraining** is the abstract specification of the
whole: gather a step's worth of unused groups, train, publish one version, go on.
`ImplementsStepwise` states that AsyncGRPO implements it; the used groups are
mapped to the arrival numbers that are no longer in the buffer, so that a group
taken out and not trained on would show. **MCAsyncGRPO** gives values to the
constants the code derives from others.

**Checkpoint** models the directory of checkpoints with one action per file
system operation, and the runs that write it: resume, train, save, prune,
killed anywhere. Names of directories are pairs (kind, step); a file is missing,
damaged, or carries the number of the run that wrote it. `saved` and `rewinds`
are history variables. A run that starts below the checkpoint it resumes from
(`rewinds`) is one that changed between the two GRPO loops: `grpo_train` names
checkpoints after `total_steps` and `async_grpo_train` after `current_step`, and
neither keeps the other's counter.

**SyncGRPO** models `grpo_train` with dynamic sampling, the refit of a colocated
vLLM engine, and runs that are killed and resume. One thread drives everything;
what matters is the state it carries along.

| Variables | Code |
|---|---|
| `dynamic`, `maxSteps` | `use_dynamic_sampling`, `max_num_steps`: chosen once, so that one run checks several configurations |
| `pc`, `goal` | where the loop is, and whether the engine is prepared for a rollout, a validation or the initial validation |
| `epoch`, `step`, `total` | `current_epoch`, `current_step`, `total_steps` |
| `pos` | how many batches the dataloader has yielded in this epoch |
| `numGen`, `cache`, `batch` | `dynamic_sampling_num_gen_batches`, `batch_cache`, the prompts of the step |
| `policy`, `engine` | weights, as the set of prompts they were trained on |
| `stale` | `POLICY_GENERATION_STALE` |
| `policyMem`, `engineMem` | what policy (`dtensor_policy_worker.py`) and engine (`vllm_generation.py`, sleep level 1) keep on the GPU |
| `saved`, `run` | the latest checkpoint, the number of the run |

**Packing** has the four packers of `data/packing` as operators from a list of
lengths to a set of results (one, but for the one that shuffles), and
`_adjust_bin_count`. **Batches** has `shard_by_batch_size` in its three ways to
cut a batch (plain, dynamic, packed) and in the uneven way of the engines, the
microbatch iterators, and `reorder_data`; a batch is the list of the lengths of
its rows, a shard the list of its row numbers with the cuts the code keeps beside
it. An argument the code refuses gives `Raised`. **WorkerGroups** has the named
axes and which workers are called and answer. **PackedLayout** follows the tokens
of a packed Megatron microbatch: rows padded one by one, as a whole and to the
length of the pipeline (`_pack_sequences_for_megatron`), dealt to the
context-parallel ranks in two chunks each, and gathered and cut again by the three
readers: the loss (`SequencePackingLossWrapper`), the log-probabilities
(`from_parallel_logits_to_logprobs_packed_sequences`) and the top-k logits. A token
is its row and position, and what a reader gets is a list of pairs, a logit's token
and the target it was compared with. These four have no state; their operators are
what PolicyDispatch and Rollouts are made of.

**PolicyDispatch** models a call of a `Policy` method from the split of the batch to
the answer, for DTensor, automodel (DTensor v2) and Megatron workers. A call gives
every worker a *program*: the collectives it will join, in the order of the code,
each with its group and the rows its microbatch computes. A collective completes
when all of its group have arrived at it, so a rank with a microbatch too many, a
group too small or an order swapped shows as a call that never returns. In a packed
microbatch of Megatron a row counts as computed only when its reader gets the
tokens of that row against the tokens that follow them (`MegatronReads`).

| Variables | Code |
|---|---|
| `setup` | the batch, the layout of the cluster, the back end and its configuration, of which `__init__` refuses some (`Refused`) |
| `op`, `split`, `calls`, `failed` | the method in progress, the shards and `unsorted_data_indices`, calls made, the method that raised |
| `program` | per worker, what it has still to do |
| `weights`, `aside` | the weights in the model, and those `use_reference_model` put aside |
| `grads`, `steps` | gradient buffers, as the rows that went in; the optimizer steps of the call |
| `outputs`, `answer` | what workers have returned, and what the caller gets |

**Rollouts** models `run_multi_turn_rollout` and `run_async_multi_turn_rollout` with
`calculate_rewards` and the `generate` and `generate_async` of the engines. A
message is known by the conversation it continues (`to`) and its length; a reply
also by the environment state it was given (`with`) and leaves behind.

| Variables | Code |
|---|---|
| `log`, `rewards`, `info`, `stops` | `message_log`, `total_rewards`, `extra_env_info`, `stop_strings` |
| `terminated`, `truncated`, `turns`, `active` | the flags, the turns begun, `active_indices` |
| `pc`, `queue`, `finished`, `collected` | of one sample's coroutine: where it is, and the `result_queue`, consumer flag and collected outputs of its `generate_async` |
| `shard` | `current_generate_dp_shard_idx` |
| `lost`, `phase` | why a sample broke off, and the state of the whole rollout |

**EpochTraining** models `sft_train`, `dpo_train`, `rm_train` and
`distillation_train` with `TimeoutChecker`, over the jobs of one training. Weights
are the list of batches they were trained on; for distillation a batch carries
the number of steps of the weights that wrote its responses.

| Variables | Code |
|---|---|
| `epoch`, `step`, `total` | `current_epoch`, `current_step`, `total_steps` |
| `loader` | the pass over the data and how many batches it has yielded |
| `weights`, `generation`, `stale` | the policy, the engine of distillation, `POLICY_GENERATION_STALE` |
| `validated`, `metric` | whether the step has metrics, and which step's metric the save state holds |
| `elapsed`, `times`, `lastSaved` | `TimeoutChecker`: time since the start, `iteration_times`, `last_saved` |
| `disk` | the latest checkpoint |
| `optimizer`, `reference` | the steps of the optimizer and its schedule; the weights of the reference model of DPO |

`StartedWorker` says what the constructor of each kind of worker leaves in the model
and in the reference model, in the order in which it loads and copies.

**JobSetup** models how a job comes up, from the checks of `setup` to the moment all
worker groups are there. A GPU is a node and a number; a placement group is the
list of the GPUs of its bundles, in the order Ray chose; a worker is a node index
and the bundles it was given. Settings that only decide whether something refuses
the configuration are names in `job.settings`, and each `...Refuses` operator lists
those of one constructor.

| Variables | Code |
|---|---|
| `job`, `nodesUp` | the configuration; the nodes of Ray's cluster, which may grow |
| `clusters` | each `RayVirtualCluster`: asked or not, one group for all nodes or one per node, strategy, tries, placement groups |
| `groups` | `RayWorkerGroup`s of teacher, engine, policy and reward model: how far they are, why they failed, their workers |
| `main`, `why` | the process in `setup`, and what made it fail |
| `pretrained` | Megatron's converted model on disk: none, a part, or whole |

**Evaluation** models `run_env_eval` with the workers of an environment. A response is
the answer that can be read from it, a sequence of characters; a score counts in
units that make all of them integers. `Verify` is what a worker's `verify` returns
for one response: its score, a second score where the code appends one
(`ScoredTwice`), and the answer it records for the vote of cons@k (`Recorded`), which
for the mathematics verifier is the first character of a prediction that is spelled
otherwise than the truth.

**Programs** (extends EpochTraining, JobSetup and Evaluation) composes them as
`examples/run_*.py` do: set-up, then a loop or an evaluation; a crash anywhere, and
a launch of the next job, which sets everything up anew while checkpoints and
conversions stay on disk. Here EpochTraining's `StartJob` happens when set-up
returns. **MCPrograms** lists the launches.

**WeightTransfer** models `refit_policy_generation` and its three transports: CUDA
IPC (two buffers per worker, copies on a stream, REQ/REP messages), NCCL
(`packed_tensor.py`: groups of parameters on a ring of streams), HTTP (SGLang). The
content of a parameter is the refit it comes from and its number; an IPC buffer
is modelled byte by byte, in units, because the claim is about overlapping
writes and offsets.

| Variables | Code |
|---|---|
| `policy`, `engine` | per rank, the locals of the streaming and of the receiving function |
| `memory`, `copies`, `socket` | the two IPC buffers, copies queued on the stream, the message in flight |
| `streams`, `delivered` | operations queued on each stream of each member of the NCCL group, broadcasts completed |
| `weights`, `refit`, `outcome` | what each engine rank holds, and how the refit ended |

**MCPolicyDispatch**, **MCRollouts**, **MCEpochTraining** and **MCWeightTransfer**
list the other configurations that are checked: each initial state chooses one of
them, so that one run covers many.

Abstractions worth knowing:
- in SyncGRPO a checkpoint is on disk in one step (Checkpoint has the steps), a
  prompt stands for its group of generations, only the number of prompts with
  differing rewards is chosen, and a dataloader that was saved at its end yields
  nothing, after which the loop goes to the next epoch;
- in SyncGRPO `prepare_for_generation` succeeds; the code returns FALSE when it
  does not, and no caller looks;
- a rollout is one step, which succeeds or raises; the environment is inside it;
- in SyncGRPO a deadline (`TimeoutChecker`) may be reported at any step (`early`);
  EpochTraining has the checker itself;
- recording the warned version and clearing the limit event are one step (a
  weight update between the two has the effect of one before both);
- a worker that finds the buffer full retries; the length of its backoff is not
  modelled;
- in PolicyDispatch what a worker computes is a list of row numbers; offloading,
  sleeping and saving are left out, and so is `train` with `eval_mode`;
- in Rollouts SGLang's concurrent requests are one step, since each writes its own
  place of a list; a coroutine's whole turn between two awaits is one step;
- in WeightTransfer both sides have the same target size of a group
  (`get_target_packed_tensor_size` reads each side's GPU memory), and the state
  dict is in the same order on all ranks;
- in JobSetup Ray's PACK and SPREAD allow every placement that keeps to them
  (`Fits`); the teacher has the parallelism of the student, and the reward model,
  which another actor sets up, has none;
- in Evaluation the verdict of a verifier is membership in a set: `Right` for the
  mathematical comparison, the truth alone for those that compare spellings. The
  Jaccard verifier gives no fractions: a text is the truth or has no word of it;
- WeightTransfer leaves out what an engine rank may still raise after it has answered
  the last group, and on the message COMPLETE (`vllm_backend.py:146-152`, :201);
- definitions introduced by a comment that begins with `Mutant:` are variants of
  the definition after them that a bug would produce. `PROJECT.json` says which
  property finds which; no specification uses them.

## The runs

| Run | Instance | Question |
|---|---|---|
| TwoPrompts | 2 prompts per step, window 1, 2 steps, 2 batches, in-flight updates, one failure, exceptions, saves | Does anything leak when rollouts raise (`PermitsBalanced`, `ReservationOwned`)? Is a batch whose spawning straddles a refit still usable (`LabelNotPastTarget`, `NotOvertaken`)? Is every step what StepwiseTraining promises (`ImplementsStepwise`)? |
| Progress | 1 prompt, window 1, 3 steps, 4 batches, refits wait, validations, one failure | Do labels stay in the window and behind the engine (`AgeWindow`, `LabelNotAhead`)? Does training finish, does every refit go ahead, does a group ever vanish, can the buffer fill, can groups become too old (`TrainingFinishes`, `RefitGoesAhead`, `NoGroupLost`, `CapacityEnough`, `StaleOnlyAfterDoubleClaim`)? |
| BufferLists | 4 places, 5 pushes, 3 versions, samples of 1 and 2 | Do the three lists implement the set of groups (`ImplementsBuffer`)? |
| Checkpoints | 3 steps, 3 runs killed anywhere, 2 rewinds, `keep_top_k` 1, checkpoints with and without a metric | Can a run always resume, is nothing saved lost, are the best kept, does the directory grow by more than kills leave behind (`LatestIsWhole`, `NothingLost`, `BestKept`, `RoomBounded`)? |
| SyncTraining | 2 epochs of 3 batches, 2 prompts per step, step limits 5 and 9, with and without dynamic sampling, validations, deadlines, 2 kills | Do rollouts use the current weights, do policy and engine fit on the GPU, is every prompt trained on once, are the final weights saved (`FreshRollouts`, `GpuShared`, `TrainedOnce`, `NothingSkipped`, `FinalWeightsSaved`)? |
| PolicyCalls | 4 workers in three layouts (2×TP2, 2×CP2, 2×PP2), three back ends, plain, dynamic and packed with four packers (Megatron also padded for sequence parallelism and FP8), 4 and 8 rows, two calls | Do answers come back in order and from the weights asked for, does a step use its batch once, do budgets hold, does a call raise only for a batch it cannot compute, does every call return (`AnswersAligned`, `StepUsesItsBatch`, `WithinBudget`, `OnlyBadInputRaises`, `CallsReturn`)? |
| Rollouts | 2 shards × 2 TP workers, 1 to 3 samples of two tasks, `max_seq_len` 7, 2 new tokens, 2 turns, three kinds of reply | Does each conversation get its own answers, rewards and states, is the length limit met and marked, does a conversation end for a reason, does a rollout return (`OwnConversation`, `TruncatedAtTheLimit`, `EndsForAReason`, `RolloutReturns`)? |
| Programs | 1 to 3 nodes of 1 to 4 GPUs, 2 tries for GPUs, one port taken; 2 epochs of 3 batches, step limits 3, 5, 9 and none, saves every 2, 4 or 9 steps, deadlines 2, 5 and 8, iterations of 1 or 2, saves of 0 or 2, two crashes; 1 to 3 prompts with 1 to 3 responses, each of them 12 (the truth), 4\*3, 43 or none | Do ranks and masters agree, do parallel ranks share nodes, is a checkpoint that of an uninterrupted training, does the last save begin in time, are evaluations counted right, does every program come to its end (`RendezvousComplete`, `PlacementSound`, `CheckpointIsUninterrupted`, `BeginsInTime`, `ScoresAreRight`, `ProgramCompletes`)? |
| WeightTransfer | 1 or 2 ranks, 1 or 2 refits, up to 6 parameters, with and without failures | Does a rank only load what was sent for a parameter, does a refit end (`LoadedWhatWasSent`, `TransferEnds`)? |
| DoubleClaim, PartialRefit, ResumedReference | smallest instances | Each refutes a sentence of the repository; see [below](#where-code-and-documentation-disagree). |

**Why the bounds are enough.** Two prompts are the least for a refit between two
prompts of a batch, for a batch of which one rollout fails, and for a worker other
than the one that releases the reservation. A window of two, the least for several
targets to be generated at once, has too many states for a run beside the others;
for wider windows AgeWindow and LabelNotAhead are proved. Three steps with a
window of one are the least for a group to be left behind and age out of the
window (in Progress, `SampleFails` fires); three or four batches are one more than
the steps consume, so that a target can be claimed twice and the buffer can fill.
Versions only ever grow by one and are compared with each other, so longer runs
repeat the same situations. For the buffer, five pushes and samples of up to two
leave holes in every place of a list of four. For checkpoints, three runs allow a
crash in what recovers from a crash; three steps with `keep_top_k` 1 allow one
checkpoint that is best, one that is latest and one that is neither, and two
rewinds are the least for an override to meet what an interrupted override left.
The two leftovers that `RoomBounded` allows per kill, a `tmp_step_N` beside an
`old_step_N`, first meet a full directory with four steps; with three, each kill adds
one. The theorem `RoomStaysBounded` is for any number.
For the synchronous loop, two epochs of three batches have a boundary that a
resume can meet, and a batch before and after it; with a limit of 5 the step limit
ends training, with 9 the epochs do; two prompts per step out of up to three in a
batch leave a cache that is short, full, or has a surplus; a save period that
divides neither end makes the last save depend on `is_last_step`.

For the policy calls, four workers are the least for a data-parallel axis beside
one other; lengths are chosen so that a row exceeds the budget, fills it, that
shards get different numbers of microbatches, that bins have to be split to make a
multiple of the shards, and that the global batch is half of the batch or the
whole; two calls let a second one meet what the first left. For rollouts, three
samples over two shards leave the shards uneven and, after one finishes, one of
them empty; two tasks that alternate are the least that grouping can mix up; a
prompt of 7 fills the limit at once, prompts of 2 and 3 with replies of 0, 1 and 2
end below it, on it and beyond it; two turns are the least for a state or a stop
string to be carried along. For the epoch loops, a limit of 5 steps ends in the
second epoch, 9 never does; a deadline of 2 comes after one step, 5 and 8 in the
first and in the second epoch, with a crash before and after. For set-up, two
nodes of two GPUs are the least for an engine that spans nodes beside one that
does not, three for nodes of their own for inference or a reward model; bundles of
one placement group come in every order Ray may choose. For evaluations, two
prompts or a cons@k of two out of three responses are the least for a score at the
wrong place to change the sum; 4\*3 and 43 begin with the same character and only the
first is right, so that the recorded answers of a prompt can be confused
(`KeptApart`), and 43 has the two characters that the unpacking of `dapo_math_verify`
takes. For the weight transfer, IPC groups are of one and
of two parameters with padding between them, three groups go over two buffers, and
one parameter fits into no buffer; broadcast groups end below, on and above the
target, the last group is once full and once not; two engine ranks are the least
for one to fail alone, and two refits for one to meet what is left of the other.

`SlotSymmetry` (worker records are interchangeable) is used in runs without
liveness properties only. Every run says `CHECK_DEADLOCK FALSE` where the system
ends: the trainer returns and the actors are killed, or a run reaches its last
step. That nothing stops too early is what the liveness properties are for.

**What the safety properties say, and what holds only conditionally.** Reading
the last target before taking `_generation_check_lock` allows a target to be
claimed twice (run DoubleClaim). Several properties are therefore stated with
`~DoubleClaim`: they say precisely what else can go wrong, namely nothing, and
what a double claim costs (a full buffer, groups that are overtaken, a
`ValueError` that ends training). Those that do *not* depend on it hold
unconditionally: permits, reservations, the age window, the order of labels and
engine versions, and the stepwise promise.

`NothingLost` and `LatestIsWhole` cover overrides: when a crash hits between the
two renames, the only whole copy of the latest checkpoint is `old_step_N`, which
no function reads again. `LatestIsWhole` names that as its one exception; the
checker shows it is needed, since the next-latest directory may be one whose
removal a crash had interrupted.

## Fairness

`FairSpec` of AsyncGRPO assumes weak fairness of the training loop, of the
collection thread, of the actor thread and of each worker thread: they are
threads and processes that the operating system keeps scheduling, and a blocked
one (an event, a semaphore, a remote call) becomes able to run when what it waits
for is there. The semaphore needs no strong fairness because only the collection
thread acquires it. Rollouts terminate (a token limit and a turn limit bound
them). Nothing is assumed of failures: `RolloutRaises`, `TrainerRaises` and a
deadline need never happen. TrainingFinishes is stated up to three named accidents,
each of which a run or a hazard shows to be possible:
- `SurplusClaim`: targets were claimed again more often than rollouts raised (run
  DoubleClaim), so that groups for no step take up the dataloader, the permits or
  the buffer. No ordinary run passes through such a state: a target that is claimed
  again because a rollout raised is claimed after that rollout was counted;
- `<>[]StepStarved`: from some time on a step that is still to be trained has too few
  groups and nobody can claim its target any more, because the dataloader is
  exhausted or later targets are in the buffer, or the version moved on first;
- `<>[]LostWakeup`: the collection thread sleeps for ever on an event that was
  cleared after the update it waits for had set it.

The last two are exceptions only where they last. A state in which a
version has been stored and its event not yet set is part of every run, and excuses
nothing: a `set_weight_version` that does not set the event violates the property
(`UpdateWithoutSet`).

PolicyDispatch assumes that workers and the process that waits for them go on;
Rollouts that the rollout goes on and that a worker that was given a sample answers
or fails, and makes no use of the time limit, which may pass or not;
Programs that set-up, loop and Ray go on, that nodes that are to join do, and that
whoever runs the training launches the next job; crashes and ports that are taken
are bounded and never required. `ProgramCompletes` is about configurations whose
parts fit (`Fitting`); those the code does not refuse and that cannot come up
are listed [below](#where-code-and-documentation-disagree). WeightTransfer assumes that
processes, streams and the 120 s timers run; loading and posting need never fail.
`TransferEnds` names one exception, `Deserted`: an engine rank that raises between
two broadcasts leaves the others in the next one, and there is no timer in that
code that ends their wait.

## Proofs

`AsyncGRPO_proofs` holds the theorems about the asynchronous loop, for every number of
prompts, window, steps, batches and failures; `Stores_proofs` those about the lists
of its buffer and about the checkpoint manager, `SyncGRPO_proofs` those about the
synchronous loop, `Programs_proofs` those about
what the other loops save and when, alone and within a whole program, and about the
set-up of a program's jobs,
`Rollouts_proofs` those about the conversations of a rollout, `PolicyDispatch_proofs`
one about the calls of a policy, `WeightTransfer_proofs` those about a refit.
`SequenceLemmas` has the facts about numbers, sequences and folds they share. They
assume what the modules' `ASSUME`s say of the constants, and nothing else; that of
Rollouts (`RolloutAssumption`) says that prompts fit in `max_seq_len`, that each
sample has a task, and that the axes of the workers are distinct and begin with
`data_parallel`, as the code constructs them; that of PolicyDispatch
(`SetupsAssumption`) that batches are not empty, sizes and lengths positive, and back
end, way to cut and packer ones the code knows.

- `TypeCorrect`: `Spec => [](TypeOK /\ SpawnLocals)`. TypeOK alone is not
  inductive: `idx` would leave its range, and the record a thread is created in
  would be unknown, without `SpawnLocals`, which says what the locals of
  `_process_batch` are between two prompts.
- `LabelsStayInWindow`: `Spec => []AgeWindow`, and `LabelsNeverAhead`:
  `Spec => []LabelNotAhead`. The inductive invariant is
  `LabelInv == TypeInv /\ UpdatesInOrder /\ LabelsKnown /\ AgeWindow`. The argument:
  the versions the trainer announces travel through the actor's queue in
  ascending order and none is ahead of the trainer (`UpdatesInOrder`), so the
  version the collector knows only grows; every label is a version the collector
  knew at some time (`LabelsKnown`), so it is not newer than the engine's; a
  target is chosen within the window of the version the thread has read, and a
  wait for a refit only raises the label, which keeps the difference small.
  AgeWindow is inductive only together with LabelsKnown, because `RefitWait`
  replaces the label by the current version, which must not be older.
- `PermitsNeverLeak`: `Spec => []PermitsBalanced`, and `ReservationsAreOwned`:
  `Spec => []ReservationOwned`. The inductive invariant is
  `ReservationInv == TypeInv /\ StartedOnce /\ ReservationHeld`. The argument: the
  thread record the collector is filling is one no thread runs on yet
  (`StartedOnce`), so that a permit is acquired once per thread and released once;
  and every reserved target has at least one worker that still has to release it
  or a batch that has still to spawn one (`ReservationHeld`).
- `TrainsStepwise`: `Spec => ImplementsStepwise`, the refinement of
  StepwiseTraining: Init maps to its Init, every step of a thread to one of its
  steps or to a stutter. The invariant is `StepwiseInv`: arrival numbers tell groups
  apart and none is ahead of the counter (`NumbersKnown`), so that what a sample
  takes out of the buffer is exactly what becomes used; and the trainer's place
  tells how its version and its step relate (`StepInPhase`).
- `NothingDisappears`: `[]NoGroupLost`; `NeverOvertaken`: `[]NotOvertaken`;
  `LabelsReachTheirStep`: `[]LabelNotPastTarget`; `StaleNeedsDoubleClaim`:
  `[]StaleOnlyAfterDoubleClaim`; `RoomForAll`: `[]CapacityEnough`. The invariant is
  `GroupsInv`, the three before with `TargetsKnown`, `RunningInv`, `Claims` and
  NoGroupLost. The argument counts: a claim brings `NumPrompts` groups; each step of a
  thread moves a group from the batch to spawn to a worker, to the buffer or to the
  trainer, and only a rollout that raises and the end of collection make the sum
  smaller (`Moved`). So the groups of a target that are anywhere are at most
  `NumPrompts` per claim (`Claims`), and when the trainer has taken `NumPrompts` of a
  target that was claimed once, none is left: the trainer overtakes no group. As the
  collector is not ahead of the trainer, a label is not newer than its step either,
  and an entry that is too old would be for a step that is past. Each buffered group
  has a place of its own, its target and its rank there, among the
  `(MaxAge + 1) * NumPrompts` of the window, and a group that is carried keeps one
  of them free (`Room`). DoubleClaim is the code's own exception (run DoubleClaim).
- `ListsImplementBuffer`: `ListsSpec => ImplementsBuffer`, the refinement
  of ReplayBuffer. The invariant is `ListInv`: the lists have the same length, and the
  arrival numbers ascend along the first. What popping leaves of a list depends only on
  its length and the positions, as long as no pop moves a position still to be popped:
  the positions ascend and the highest goes first (`RoomBefore`, `OneRemainsLess`,
  `PoppedInOrder`). So the three lists keep the same entries in the same order, an
  entry keeps its labels, and the first of the intended positions, being those of the
  lowest numbers, are the oldest of the intended groups. `ListsInOrder` is its type
  invariant.
- `RolloutsAreFresh`: `SyncGRPO!Spec => []FreshRollouts`. The invariant `StaleInv`
  says that a flag that is not set means that the engine has the policy's weights,
  and that it is not set where generation starts.
- `MemoryIsShared`: `[]GpuShared`, from `MemoryInv`, which says what is on the GPU
  at each place of the loop.
- `SyncTypeCorrect`: `[]TypeOK` of SyncGRPO, from `CountersInv`: an epoch has no
  more steps than batches fetched, also in what was saved, and a batch is only
  fetched below the limits of steps, epochs and generated batches.
- `EachPromptOnce`: `[]TrainedOnce`. In `TrainInv`, everything in the weights and
  in the cache was yielded before the batch in flight (so that batch is new), the
  prompts of the cache are distinct and not trained on, and the weights hold
  `NumPrompts * total` prompts; the same is said of the saved state with the
  counters saved beside it, which is why a resume repeats nothing.
- `NothingIsSkipped`: `[]NothingSkipped`. `WholeInv` says that without dynamic
  sampling the weights hold every prompt of the batches up to `LastTrained`, the
  batch in flight or the one before it, depending on the place in the loop, and that
  every saved state holds those up to its position.
- `FinalWeightsAreSaved`: `[]FinalWeightsSaved`. `StepInv` says that without dynamic
  sampling every batch is a step of its epoch, so that the last batch is recognised
  by its step; `EndInv` that where no step follows and none is under way, the
  saved state has the weights of the policy.
- `CheckpointTypeCorrect`: `[]TypeOK` of Checkpoint; `LatestStaysWhole`:
  `[]LatestIsWhole`; `NothingIsLost`: `[]NothingLost`. The inductive invariant is
  `CrashInv`. `Written` says what the run has written so far at each place of a save;
  `DoomedInv` that a removal is never that of the latest step; `Recoverable` is
  LatestIsWhole stated of any step that has no later one. A kill keeps the disk, so
  it holds in every state, in a removal or an override that is half done too: a
  removal is never that of the latest, and an override sets the old directory aside
  whole before the new one takes its name.
- `RoomStaysBounded`: `[]RoomBounded`, which counts every directory, also those that
  are never listed again. A directory is one of `History` (it has its
  `training_info.json`), a `Stray`, or in the hands of the run (`InHand`): the one that
  is being written, overridden or removed. `KeptInv`: what a pruning keeps of `History`
  are the top and the latest, and the top has at most `KeepTopK` members, because its
  last one has all others before it and fewer than `KeepTopK` are (`TopSize`).
  `RemovalInv`: removals go one after the other, so at most one has begun. `RoomInv`:
  strays that are not in hand are at most two for every run that was killed, since a
  kill turns what was in hand, at most a `tmp_step_N` with an `old_step_N` or one
  unfinished removal, into strays, and no other step makes any.
- `BestAreKept`: `[]BestKept`. In `BestInv`, while no run started below what it
  resumed from, steps only grow (`Growing`) and the top of all that was saved is
  on disk, whole and not to be removed (`Ranked`); what a new checkpoint pushes
  out of the top never comes back.
- `CheckpointsAreUninterrupted`: `EpochTraining!Spec => []CheckpointIsUninterrupted`.
  `EpochInv` says how many batches the loader has yielded at each phase, that the
  weights are those of the uninterrupted training of as many, that an engine whose
  flag is not set has the current weights, and that the checkpoint is
  uninterrupted; a step that trains appends exactly the next batch, which its number
  gives by quotient and remainder. The save states of the loops number the end of an epoch in different ways;
  the proof shows that the loader decides, and not they.
- `ProgramsSaveUninterrupted`: the same for `ProgramSpec`. Every step of a program
  either is one of the loop's actions or leaves the loop alone, so EpochInv is
  kept by both.
- `CheckpointBeginsInTime` and `ProgramsBeginInTime`: `[]BeginsInTime` of
  EpochTraining and of Programs. `TimerInv` says that as long as the checker has not
  asked for a checkpoint, there was room for one more average iteration
  (`RoomLeft`); one that is no longer than that average uses at most this room. The
  averages are compared as products, so the argument is about integers.
- `RolloutInvariant`: `Rollouts!Spec => []RolloutInv`, and from it
  `ConversationsAreOwn` (`[]OwnConversation`), `TruncationIsRight`
  (`[]TruncatedAtTheLimit`) and `ConversationsEndForAReason` (`[]EndsForAReason`).
  The first half of the argument is about operators: `Leaders` are the first worker
  of each shard in the order of the shards (`CalledOnce`, `LeadersInOrder`), a shard is
  a stretch of consecutive rows (`RowsOfShard`), so joining the answers puts each at the
  place of its question (`GenerateAligned`); grouping by task and scattering the
  replies is the identity on places (`RewardsAligned`). The second half is about
  steps: each log is one conversation (`Conversation`), with what its sample's reward,
  state, stop strings and flags say of it (`Sound`); in the loop over turns the active
  samples are those that go on, all with the same number of turns, and the others
  have ended (`GoingOn`, `HasEnded`, `BatchInv`); in the coroutines of an asynchronous
  rollout each sample has its own number of turns and at most one answer under way,
  in the queue or lost (`Stream`, `Coroutine`, `AsyncInv`).
- `RaisesForBadInputOnly`: `PolicyDispatch!Spec => []OnlyBadInputRaises`, for every
  batch, layout of workers, back end, way to cut a batch and packer. The invariant
  `IInv` adds to the claim that the setup is one the constructors accept (`Usable`) and
  that the programs under way have no item at which a worker raises (`Quiet`), unless
  the call was not acceptable. Most of the argument is about operators. Each packer
  is a fold whose state *packs* the sequences seen so far: every index in one bin, no
  bin empty or beyond the capacity (`Packs`, `Filling`). With as many sequences as a multiple of the shards, `_adjust_bin_count`
  always finds a bin with one to spare, as fewer bins than sequences leave one with
  two (`AdjustBinCountPacks`): its second error, which the code says is a bug when it
  is reached, is not. So each shard gets a bin of every global batch
  (`BinsOfGlobalPack`), the shards together every row once (`PackedRows`), and so the
  number of global batches a worker computes from the sizes of the shards is that of
  the caller. Dynamic batching cuts at least one microbatch for every global batch,
  none of a position beyond the budget (`ShardDynamicIs`), and plain shards have
  equal sizes that the microbatch size divides (`ShardPlainIs`). With that each back
  end's loop meets only batches that can be cut (`CanBeCut`, `ProgramQuiet`).
- `TransferInvariant`: `WeightTransfer!Spec => []TransferInv`, and from it
  `TransferIsFaithful` (`[]LoadedWhatWasSent`). Over CUDA IPC the tensors of a group lie
  end to end in a buffer, at the offsets the engine rank computes from its own list
  of names (`Packing`, `Landed`); between the two processes stands one message,
  either the handle of a full buffer or its acknowledgement, and the buffer that is
  packed meanwhile is another one (`Exchange`), so it is not overwritten before it was
  loaded. With the collective transport the producer and every consumer cut the list
  of parameters at the same places, as each cuts where the bytes pass the same
  target (`Chain`, `StartOf`, `GroupNo`); the operations queued in a member's streams are
  therefore those of consecutive groups (`StreamOk`), and a broadcast brings what the
  load behind it expects, whichever stream is ahead. Over HTTP the workers of a
  server are at the same parameter whenever its handles are gathered (`HttpAt`).
- `SetupIsOrderly`: `ProgramSpec => []SetupInv`, for every machine and configuration
  that satisfies `JobsAssumption` (sizes are natural numbers, parallel sizes positive).
  `SetupInv` says of every state of every job, through retries, clashes of ports,
  kills and relaunches: a cluster has the shape the plan asks for, its placement
  groups have that shape and no GPU of another one (`GpusOnce`); a group of workers
  that is placed is the layout of its cluster (`GroupInv`); groups come up in the order
  of the plan, and an engine that runs has as many members as its configuration says
  (`OrderInv`, `EngineInv`). From it `RendezvousIsComplete` (`[]RendezvousComplete`): the
  ranks are blocks of consecutive numbers, one block per engine, the policy's first.
- `NodesAreWhole`: `ProgramSpec => []NodesInv`: where the clusters of a job take whole
  nodes (`WholeNodes`), each placement group has all GPUs of its nodes; nothing else
  of how Ray packs and spreads bundles is used. `PlacementIsSound` (`[]PlacementSound`)
  follows from both: workers are laid out along the bundles in the order of the nodes,
  so a block of as many bundles as divide a node does not straddle two of them; seeds
  differ as long as bundle indices stay below 1024.

Each proof has one step per action of `Next`. The lemmas about single actions are
stated once per kind of step.

Induction over data is done with sets: a set of numbers that has 0 and the
successors of its elements has all numbers (`Induction`, from the library's theorem
that a nonempty set of numbers has a least element), so that no operator is a
parameter. With it the recursive function that the folds of the community modules
evaluate is shown to exist (`FoldExists`), and to be a sum, a concatenation or a
selection (`TotalOfAppend`, `FlattenParts`, `KeptByFold`). The operators of the modules
that are proved about are therefore folds: `Kept` keeps the elements of a sequence that
are in a set, as `SelectSeq` is opaque to the provers, and `Stride` is the product of the
sizes of the axes after a given one.

Model-checked only:
- liveness (`TrainingFinishes`, `RolloutReturns`, `CallsReturn`, `ProgramCompletes`,
  `TransferEnds`) and everything with ENABLED: out of reach of the provers;
- three properties of PolicyDispatch: `AnswersAligned` and `StepUsesItsBatch`, which say
  what the readers of Megatron's packed rows find, token by token, and would need the
  layout of PackedLayout for every padding; and `WithinBudget`, about the widths of the
  microbatches;
- `ScoresAreRight` of Evaluation, about the places of answers and scores through
  chunks, sorting and splitting.

## Where code and documentation disagree

| Run | Sentence | What the code does |
|---|---|---|
| DoubleClaim | `async_utils.py:289`, the lock prevents "race conditions when checking/spawning workers" | the last target is read before the lock is taken; a target whose first group is pushed in between is claimed again |
| PartialRefit | `grpo.py:1056`, "check if update is successful", and `vllm_backend.py:133`, "True if weights were successfully updated" | the vLLM worker returns the result of its first rank only (`vllm_worker.py:777`): when another rank raised and returned False, the refit counts as a success and that rank keeps old weights |
| ResumedReference | `docs/guides/dpo.md:4`, "relative to a frozen reference model" | with the automodel worker (`dtensor_v2`) the reference is copied after the checkpoint was loaded (`dtensor_policy_worker_v2.py:257`): after a resume it is the resumed policy |

Met while modelling and not among the runs:
- the limit event is cleared after the limits were tested with the old version, so
  a weight update in between does not wake the collector (`async_utils.py:428`,
  against :347);
- a version published before a batch was claimed for its step excludes that step
  from all later targets, and the stall of `sample` has no end
  (`async_utils.py:321`, against :111);
- a worker can start after the wait of a refit for the pending ones, and a thread
  added and not yet started is forgotten (`async_utils.py:476` and :609, against
  :536);
- an `old_step_N` left by a crash makes the `os.rename` of an override raise
  (`checkpoint.py:173`, against :154);
- the limit of generated batches is tested with `<=` after the batch at hand was
  counted, so one batch more is used (`grpo.py:856`, against
  `docs/guides/dapo.md:42`);
- the limit event is cleared once per version only, so that a second exhaustion
  of the targets in one version does not wait but drops batches
  (`async_utils.py:412`, against :299);
- a rollout that raises is logged and never repeated; its target stays short of
  a group, and training stalls for good (`async_utils.py:706`,
  against :111);
- an entry older than the window ends training with an exception
  (`async_utils.py:142`), where `docs/guides/async-grpo.md:113` says it is
  discarded;
- rollouts start before the first refit, with the engine's dummy weights
  (`grpo.py:2219`);
- `get_best_checkpoint_path` raises `KeyError` when only the first checkpoint
  listed has the metric (`checkpoint.py:248`, against :233);
- with dynamic sampling that runs out of epochs the final weights are not saved,
  because `is_last_step` compares steps with batches (`grpo.py:1558`; the
  exception in `FinalWeightsSaved`);
- packed bins are always a multiple of the shards and dealt in turn, so that shards
  never differ in bins and the dummy microbatches of the workers are not needed
  under the policies that split this way (the comments beside
  `dtensor_policy_worker.py:604` expect uneven counts); `get_topk_logits` and `score`
  of the first DTensor worker would keep the answers of dummies;
- `Policy.score` splits its batch plainly, while a worker with dynamic batching
  expects a batch that was cut, and raises (`OnlyBadInputRaises` says so);
- a synchronous turn stores the stop strings an environment returns even when it
  returns none, an asynchronous one keeps those it had; and the stop strings of
  vLLM's synchronous shard are merged, where `interfaces.py:139` says "per sample";
- an asynchronous sample whose generation failed or timed out is returned like any
  other, with what it has;
- `calculate_rewards` blocks the event loop, so that a time limit can pass while
  the answer is in the queue;
- the rate of natural terminations of a synchronous rollout counts truncated
  samples too (`rollouts.py:488`);
- the deadline test foresees the next iteration, not the save itself, and has
  nothing to go by before the second one;
- SFT, DPO and RM save the step modulo the length of the loader, distillation one
  past it, and none saves the next epoch: a resume at the end of an epoch is right
  only because a restored loader yields nothing more;
- a unified engine that is spread beside a reward model gets parts of nodes, and the
  tensor-parallel ranks of a policy then straddle nodes (`virtual_cluster.py:311`,
  the exception in `WholeNodes`); SGLang's servers that do not divide the GPUs only
  warn (`sglang_generation.py:81-85`), so that the engine leaves GPUs of the policy
  idle;
- the streams of a packed broadcast are not drained when its functions return;
  NextRefit of WeightTransfer assumes that they are by the next refit;
- when a worker that posts to SGLang raises, the other workers are left in their
  `all_gather_object`, and `ray.get` raises all the same;
- `HFVerifyWorker.verify` appends a score and then asserts that an answer can be
  unpacked, in one `try`: a response without one is scored twice
  (`math_environment.py:116`), which breaks the assertion of cons@k and shifts the
  groups of pass@k and the saved rewards; with `dapo_math_verify` it is every
  response whose answer has not exactly two characters (`ScoredTwice`), because the
  answer, a string, is taken for a pair;
- of an answer that is not spelled like the truth, the vote of cons@k gets
  `extracted_prediction[0][0]`, the first character of the first prediction, where the
  comment says "just use the first prediction" (`math_environment.py:128`): with the
  truth 42, the answers 12 and 13 vote together as 1 (`KeptApart`);
- `remove_old_checkpoints` "removes all checkpoints except the top-k best ones"
  (`checkpoint.py:185`), but a `step_N` whose removal was killed after its
  `training_info.json` was gone, a `tmp_step_N` and an `old_step_N` are not among the
  checkpoints it lists (`checkpoint.py:312-314`), and stay unless their step is saved
  again (`RoomBounded` counts them);
- the code environment asserts that no extracted answer is asked for, and the
  steps of the VLM and the reward-model environment have no such parameter: an evaluation
  with one of them raises (`StepRaises`; `examples/run_eval.py` builds a math
  environment);
- a job killed while Megatron converts a model leaves `iter_0000000`, so that later
  jobs skip the conversion and fail to read it (`ConversionCut`);
- the combinations `Fitting` leaves out: distillation with a colocated vLLM engine
  over several nodes always finds a layout it refuses; distillation with SGLang
  leaves `student_generation` unbound; with Megatron generation its student's workers
  never get a share of the GPUs, while set-up returns; a colocated vLLM engine over several nodes beside a
  reward model may be spread unevenly; a tensor-parallel size that does not divide
  the GPUs of a node is noticed after the engines are there; SGLang on GPUs of its
  own never joins the process group of the refits;
- SGLang's first GPU is a bundle index, which may be another cluster's GPU;
- ports are found and not kept: another process may bind one first (`PortTaken`);
- `shutdown` of a cluster keeps its sorted bundle indices, and the local rank of vLLM's
  data parallelism assumes 8 GPUs per node; neither matters to a job that sets up
  once.

## What is not modelled

`PROJECT.json` lists every component with its status. Left out for good:

- **Tensor computation**: losses, advantages and rewards (`loss_functions.py`,
  `algorithms/utils.py`), the distributed softmax and its gradients, the
  parallelisation of Megatron, automodel, DTensor and Hugging Face models. There is nothing in them for
  a state space to separate; what remains of them is that a microbatch is a
  collective of a group, what rows it is about, and which token meets which target.
- **Text**: datasets, processors, the tokenisation of messages, the parsing of
  answers in environments. In a rollout an environment is one that replies with any
  of a few lengths, rewards and stop strings, and may end a conversation.
- **Input and output**: logging, profiling, the files of back-end checkpoint formats,
  launch scripts, the reading of configurations. The writing of a checkpoint is one of the steps a crash
  can interrupt.
- **External servers**: Ray, vLLM, SGLang, NeMo Gym. Calls of Ray are steps that
  complete; engines answer with what they were asked for or fail.

Inside modelled components:

- asynchronous loop: a resumed run, and with it that the dataloader state that is
  saved is ahead of the batches trained on (`grpo.py:2729`); the `_cleanup` after
  the loop is only the end of the run;
- synchronous loop: the arithmetic of advantages, the calibration of quantised
  KV caches;
- policy: `train` with `eval_mode`, and streaming from Megatron's inference engine;
- rollouts: `run_async_nemo_gym_rollout`, which leaves the turns to a server;
- engines: the HTTP server of vLLM's asynchronous worker, quantisation, the
  arguments of SGLang's servers;
- worker groups: the Python environments of actors, the shut-down of single workers;
- set-up: how the settings of `job.settings` come about (each is a choice), the
  loading of data.

The definitions mapped in `PROJECT.json` stand for about 30 % of the lines of
`src/nemo_rl`; the rest is mostly the first three items of this section.

## Plan

Done: ReplayBuffer, ReplayBufferLists, TrajectoryCollector, AsyncGRPO and
StepwiseTraining; Checkpoint; SyncGRPO; Packing, Batches and WorkerGroups under
PolicyDispatch; Rollouts; EpochTraining with the deadline; WeightTransfer; the
theorems above; PackedLayout under PolicyDispatch; JobSetup and Evaluation, composed with
EpochTraining in Programs.

What is left, in this order:

1. AsyncResume: AsyncGRPO across a crash, with the position of the dataloader that
   is saved, to say which prompts a resumed run never sees.
2. The reward model's and the environments' own worker groups, which JobSetup only
   knows as holders of GPUs.
3. Theorems about Evaluation (`ScoresAreRight`), then the other properties of
   PolicyDispatch.
