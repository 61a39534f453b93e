------------------------------ MODULE Rollouts ------------------------------
(***************************************************************************)
(* nemo_rl/experience/rollouts.py: conversations of the policy with the    *)
(* environments, turn by turn for a whole batch (run_multi_turn_rollout)   *)
(* or each sample by itself (run_async_multi_turn_rollout), and the calls  *)
(* of the generation back ends they are made of.                           *)
(*                                                                         *)
(* A message is known by the conversation it continues: the sample and the *)
(* number of messages before it.  What the engines generate and what the   *)
(* environments reply is any of a few lengths and verdicts.                *)
(***************************************************************************)
EXTENDS Batches, WorkerGroups

CONSTANTS Setups,        \* batches and back ends
          MaxSeqLen,     \* max_seq_len, also the engine's max_model_len
          MaxNewTokens,  \* max_new_tokens of the generation configuration
          MaxTurns,      \* max_rollout_turns
          Environments,  \* task_to_env: the names of the known tasks
          Outcomes       \* what an environment may reply

\* The data processors leave no prompt longer than max_seq_len, and the layout
\* of either back end has its data-parallel axis outermost.
ASSUME RolloutAssumption ==
  /\ MaxSeqLen \in Nat /\ MaxNewTokens \in Nat
  /\ MaxTurns \in Nat \ {0}
  /\ Outcomes \subseteq [tokens : Nat, done : BOOLEAN, meta : BOOLEAN,
                         stops : BOOLEAN]
  /\ \A s \in Setups :
       /\ s.backend \in {"vllm", "sglang", "vllm_async"}
       /\ s.prompts \in Seq(0..MaxSeqLen)
       /\ s.tasks \in Seq(STRING) /\ Len(s.tasks) = Len(s.prompts)
  /\ Axes \in Seq(DOMAIN AxisSize) /\ Len(Axes) > 0
  /\ Axes[1] = "data_parallel"
  /\ \A i, j \in 1..Len(Axes) : Axes[i] = Axes[j] => i = j
  /\ AxisSize \in [DOMAIN AxisSize -> Nat \ {0}]

VARIABLES setup,
          log,        \* per sample, its message_log
          rewards,    \* per sample, the replies whose rewards were added up
          info,       \* per sample, extra_env_info
          stops,      \* per sample, the stop strings of the next turn
          terminated, truncated,
          turns,      \* per sample, the turns begun
          active,     \* the samples of the next turn of the batch, in order
          pc,         \* per sample, where its coroutine is
          queue,      \* per sample, result_queue of its call of generate_async
          finished,   \* per sample, the flag of its consumer
          collected,  \* per sample, collected_indexed_outputs
          shard,      \* current_generate_dp_shard_idx
          lost,       \* per sample, why a turn broke off, or "no"
          phase       \* of the rollout: "running", "returned" or "raised"
vars == <<setup, log, rewards, info, stops, terminated, truncated, turns,
          active, pc, queue, finished, collected, shard, lost, phase>>
stream == <<queue, finished, collected>>

Samples == 1..Len(setup.prompts)
Async == setup.backend = "vllm_async"
None == <<>>

Message(role, to, tokens, with) ==
  [role |-> role, to |-> to, tokens |-> tokens, with |-> with,
   leaves |-> None, ends |-> FALSE]

Length(messages) == FoldLeft(LAMBDA n, m : n + m.tokens, 0, messages)

-----------------------------------------------------------------------------
(* Generation. *)

DP == "data_parallel"
DPSize == AxisSize[DP]

\* The first worker of each data-parallel rank, whose results are returned.
Leaders == Returning({DP}, {}, {})

\* The tokens the engine may still generate.  vLLM is told max_new_tokens and
\* ends at max_model_len, the asynchronous worker works out the difference;
\* SGLang leaves one token of its context free.
VllmAllows(len) ==
  IF MaxSeqLen - len < MaxNewTokens THEN MaxSeqLen - len ELSE MaxNewTokens
SGLangAllows(len) ==
  LET room == IF MaxSeqLen - len - 1 > 0 THEN MaxSeqLen - len - 1 ELSE 0
  IN  IF room < MaxNewTokens THEN room ELSE MaxNewTokens
Allowed(len) ==
  IF setup.backend = "sglang" THEN SGLangAllows(len) ELSE VllmAllows(len)

\* A response ends at once, by a stop string, or runs to the limit.
Generated(len) == IF Allowed(len) = 0 THEN {0} ELSE {1, Allowed(len)}

\* _merge_stop_strings: vLLM's worker has one set for the whole shard,
\* SGLang's one for each row.
MergedStops(prompts, rows, k) ==
  LET Given(r) == {prompts[r].stops} \ {None}
  IN  IF setup.backend = "sglang" THEN Given(rows[k])
      ELSE UNION {Given(rows[j]) : j \in 1..Len(rows)}

\* generate of a worker, for the rows of its shard; an empty shard has none.
WorkerGenerate(prompts, rows, tokens) ==
  [k \in 1..Len(rows) |->
     Message("assistant", prompts[rows[k]].to, tokens[rows[k]],
             MergedStops(prompts, rows, k))]

\* generate of VllmGeneration and SGLangGeneration.
Generate(prompts, tokens) ==
  LET rows == ShardUneven([j \in 1..Len(prompts) |-> prompts[j].tokens], DPSize)
  IN  Gathered([w \in Workers |->
                  WorkerGenerate(prompts, rows[Coord(w, DP) + 1], tokens)],
               Leaders)

Prompt(i) == [to     |-> <<i, Len(log[i])>>,
              tokens |-> Length(log[i]),
              stops  |-> stops[i]]

-----------------------------------------------------------------------------
(* calculate_rewards. *)

\* What the environment of a sample sees.
Item(i, messages) ==
  [to |-> <<i, Len(messages)>>, info |-> info[i], task |-> setup.tasks[i]]

\* The place of each item task by task, tasks in order of appearance.
Grouped(items) ==
  LET First(k) == CHOOSE j \in 1..k : items[j].task = items[k].task /\
                    \A l \in 1..(j - 1) : items[l].task # items[k].task
      Before(j, k) == First(j) < First(k) \/ (First(j) = First(k) /\ j <= k)
  IN  [k \in 1..Len(items) |->
         Cardinality({j \in 1..Len(items) : Before(j, k)})]

Unknown(items) == {k \in 1..Len(items) : items[k].task \notin Environments}

\* The reply of an environment to an item.
Reply(item, outcome) ==
  [role |-> "environment", to |-> item.to, tokens |-> outcome.tokens,
   with |-> item.info, leaves |-> IF outcome.meta THEN item.to ELSE None,
   stops |-> IF outcome.stops THEN item.to ELSE None, ends |-> outcome.done]

\* The replies task by task, as the environments give them.
Replies(items, outcomes, place) ==
  [p \in 1..Len(items) |->
     LET k == CHOOSE k \in 1..Len(items) : place[k] = p
     IN  Reply(items[k], outcomes[k])]

\* Mutant: the replies stay grouped by task.
CalculateRewardsGrouped(items, outcomes) ==
  Replies(items, outcomes, Grouped(items))

\* The replies are put in the order of the items.
CalculateRewards(items, outcomes) ==
  LET place   == Grouped(items)
      replies == Replies(items, outcomes, place)
  IN  [j \in 1..Len(items) |-> replies[place[j]]]

\* Mutant: an observation that fits exactly is not truncated.
OverflowsBeyond(messages, reply) == Length(messages) + reply.tokens > MaxSeqLen

\* The conversation has reached max_seq_len with this reply ...
Overflows(messages, reply) == Length(messages) + reply.tokens >= MaxSeqLen

\* ... of which only the tokens that fit are kept.
Observation(messages, reply) ==
  LET left == MaxSeqLen - Length(messages)
      kept == IF Overflows(messages, reply)
              THEN IF left > 0 THEN left ELSE 0
              ELSE reply.tokens
  IN  [role |-> reply.role, to |-> reply.to, tokens |-> kept,
       with |-> reply.with, leaves |-> reply.leaves, ends |-> reply.ends]

-----------------------------------------------------------------------------
Init ==
  /\ setup \in Setups
  /\ log = [i \in Samples |->
              <<Message("user", <<i, 0>>, setup.prompts[i], None)>>]
  /\ rewards = [i \in Samples |-> <<>>]
  /\ info = [i \in Samples |-> <<i, 0>>]
  /\ stops = [i \in Samples |-> None]
  /\ terminated = [i \in Samples |-> FALSE]
  /\ truncated = [i \in Samples |-> FALSE]
  /\ turns = [i \in Samples |-> 0]
  /\ active = IF Async THEN <<>> ELSE Indices(setup.prompts)
  /\ pc = [i \in Samples |-> IF Async THEN "start" ELSE "batch"]
  /\ queue = [i \in Samples |-> <<>>]
  /\ finished = [i \in Samples |-> FALSE]
  /\ collected = [i \in Samples |-> <<>>]
  /\ shard = 0
  /\ lost = [i \in Samples |-> "no"]
  /\ phase = "running"

(* run_multi_turn_rollout: a turn of all active samples. *)

Turn == IF active = <<>> THEN 0 ELSE turns[active[1]]

\* The responses are appended to the logs of the active samples.
GenerateTurn ==
  /\ ~ Async /\ phase = "running"
  /\ active # <<>> /\ Turn < MaxTurns
  /\ \A k \in 1..Len(active) : Last(log[active[k]]).role # "assistant"
  /\ LET prompts == [k \in 1..Len(active) |-> Prompt(active[k])]
         Possible == {f \in [1..Len(active) -> 0..MaxNewTokens] :
                        \A k \in 1..Len(active) :
                          f[k] \in Generated(prompts[k].tokens)}
     IN  \E tokens \in Possible :
           LET responses == Generate(prompts, tokens)
           IN  log' = [i \in Samples |->
                 IF \E k \in 1..Len(active) : active[k] = i
                 THEN Append(log[i],
                        responses[CHOOSE k \in 1..Len(active) : active[k] = i])
                 ELSE log[i]]
  /\ UNCHANGED <<setup, rewards, info, stops, terminated, truncated, turns,
                 active, pc, stream, shard, lost, phase>>

\* Mutant: only the environment ends a conversation.
GoesOnUnlessTerminated(i) == ~ terminated'[i]

\* The samples not done go on.
GoesOn(i) == ~ terminated'[i] /\ ~ truncated'[i]

\* The rewards, the observations and the samples that go on, from the replies to
\* the active samples; here a truncated sample counts as terminated too.
TakeReplies(replies) ==
  LET Acted(i) == \E k \in 1..Len(active) : active[k] = i
      Of(i)    == replies[CHOOSE k \in 1..Len(active) : active[k] = i]
  IN  /\ rewards' = [i \in Samples |->
           IF Acted(i) THEN Append(rewards[i], Of(i).to) ELSE rewards[i]]
      /\ log' = [i \in Samples |->
           IF Acted(i) THEN Append(log[i], Observation(log[i], Of(i)))
                       ELSE log[i]]
      /\ truncated' = [i \in Samples |->
           truncated[i] \/ (Acted(i) /\ Overflows(log[i], Of(i)))]
      /\ terminated' = [i \in Samples |->
           terminated[i]
             \/ (Acted(i) /\ (Of(i).ends \/ Overflows(log[i], Of(i))))]
      /\ turns' = [i \in Samples |-> IF Acted(i) THEN turns[i] + 1 ELSE turns[i]]
      /\ active' = Kept(active, {i \in Samples : GoesOn(i)})
      /\ stops' = [i \in Samples |->
           IF Acted(i) /\ GoesOn(i) THEN Of(i).stops ELSE stops[i]]
      /\ info' = [i \in Samples |->
           IF Acted(i) /\ GoesOn(i) /\ Of(i).leaves # None
           THEN Of(i).leaves ELSE info[i]]

EnvironmentTurn ==
  /\ ~ Async /\ phase = "running"
  /\ active # <<>>
  /\ \A k \in 1..Len(active) : Last(log[active[k]]).role = "assistant"
  /\ LET items == [k \in 1..Len(active) |-> Item(active[k], log[active[k]])]
     IN  \/ /\ Unknown(items) # {}
            /\ phase' = "raised"
            /\ UNCHANGED <<log, rewards, info, stops, terminated, truncated,
                           turns, active>>
         \/ /\ Unknown(items) = {}
            /\ \E outcomes \in [1..Len(active) -> Outcomes] :
                 \E replies \in {CalculateRewards(items, outcomes)} :
                   TakeReplies(replies)
            /\ UNCHANGED phase
  /\ UNCHANGED <<setup, pc, stream, shard, lost>>

ReturnBatch ==
  /\ ~ Async /\ phase = "running"
  /\ active = <<>> \/ Turn = MaxTurns
  /\ phase' = "returned"
  /\ UNCHANGED <<setup, log, rewards, info, stops, terminated, truncated,
                 turns, active, pc, stream, shard, lost>>

-----------------------------------------------------------------------------
(* run_sample_multi_turn_rollout: the coroutines of the samples, on one    *)
(* event loop; calculate_rewards blocks it.                                *)

Waiting(i) == Async /\ phase = "running" /\ pc[i] = "waiting"

\* The call of generate_async at the beginning of a turn: the next leader in
\* turn is given the sample, and a task consumes what it yields.
Submit(i) ==
  /\ turns' = [turns EXCEPT ![i] = @ + 1]
  /\ shard' = (shard + 1) % DPSize
  /\ pc' = [pc EXCEPT ![i] = "waiting"]
  /\ queue' = [queue EXCEPT ![i] = <<>>]
  /\ finished' = [finished EXCEPT ![i] = FALSE]
  /\ collected' = [collected EXCEPT ![i] = <<>>]

\* gather starts the samples in order.
Start(i) ==
  /\ Async /\ phase = "running" /\ pc[i] = "start"
  /\ \A j \in 1..(i - 1) : pc[j] # "start"
  /\ Submit(i)
  /\ UNCHANGED <<setup, log, rewards, info, stops, terminated, truncated,
                 active, lost, phase>>

\* The consumer gets the only result of the worker's generator.
ConsumeSample(i) ==
  /\ Waiting(i) /\ ~ finished[i] /\ queue[i] = <<>> /\ collected[i] = <<>>
  /\ \E tokens \in Generated(Prompt(i).tokens) :
       queue' = [queue EXCEPT ![i] =
         <<[type |-> "sample",
            item |-> WorkerGenerate(<<Prompt(i)>>, <<1>>, <<tokens>>)[1]]>>]
  /\ UNCHANGED <<setup, log, rewards, info, stops, terminated, truncated,
                 turns, active, pc, finished, collected, shard, lost, phase>>

\* Mutant: the end is not announced.
ConsumeEndQuietly(i) ==
  /\ Waiting(i) /\ ~ finished[i] /\ queue[i] = <<>> /\ collected[i] # <<>>
  /\ finished' = [finished EXCEPT ![i] = TRUE]
  /\ UNCHANGED <<setup, log, rewards, info, stops, terminated, truncated,
                 turns, active, pc, queue, collected, shard, lost, phase>>

\* The generator ends.  The consumer was suspended after the sample, so the
\* coroutine that waits on the queue has taken it before.
ConsumeEnd(i) ==
  /\ Waiting(i) /\ ~ finished[i] /\ queue[i] = <<>> /\ collected[i] # <<>>
  /\ finished' = [finished EXCEPT ![i] = TRUE]
  /\ queue' = [queue EXCEPT ![i] = <<[type |-> "worker_done", item |-> None]>>]
  /\ UNCHANGED <<setup, log, rewards, info, stops, terminated, truncated,
                 turns, active, pc, collected, shard, lost, phase>>

\* The worker fails, with or without its sample answered.
ConsumeError(i) ==
  /\ Waiting(i) /\ ~ finished[i] /\ queue[i] = <<>>
  /\ finished' = [finished EXCEPT ![i] = TRUE]
  /\ queue' = [queue EXCEPT ![i] = <<[type |-> "error", item |-> None],
                                     [type |-> "worker_done", item |-> None]>>]
  /\ UNCHANGED <<setup, log, rewards, info, stops, terminated, truncated,
                 turns, active, pc, collected, shard, lost, phase>>

\* A turn without a response ends the conversation: it is returned as it is.
BreakOff(i, why) ==
  /\ pc' = [pc EXCEPT ![i] = "done"]
  /\ lost' = [lost EXCEPT ![i] = why]
  /\ UNCHANGED <<setup, log, rewards, info, stops, terminated, truncated,
                 turns, active, stream, shard, phase>>

\* _async_generate_base takes a sample and yields it; it waits again unless
\* the consumer has finished.
TakeSample(i) ==
  /\ Waiting(i) /\ queue[i] # <<>> /\ Head(queue[i]).type = "sample"
  /\ collected' = [collected EXCEPT ![i] = Append(@, Head(queue[i]).item)]
  /\ queue' = [queue EXCEPT ![i] = Tail(@)]
  /\ UNCHANGED <<setup, log, rewards, info, stops, terminated, truncated,
                 turns, active, pc, finished, shard, lost, phase>>

TakeError(i) ==
  /\ Waiting(i) /\ queue[i] # <<>> /\ Head(queue[i]).type = "error"
  /\ BreakOff(i, "error")

\* NRL_VLLM_ASYNC_TIMEOUT_SECONDS pass, or passed while an environment blocked
\* the loop: an answer that is in the queue by then is dropped with the rest.
TimesOut(i) ==
  /\ Waiting(i)
  /\ BreakOff(i, "timeout")

\* The worker is done: the response, the environment's reply, and the call of
\* the next turn, without giving up the event loop.
TakeDone(i) ==
  /\ Waiting(i) /\ queue[i] # <<>> /\ Head(queue[i]).type = "worker_done"
  /\ finished[i]
  /\ IF collected[i] = <<>> THEN BreakOff(i, "empty")
     ELSE LET answered == Append(log[i], collected[i][1])
              item     == Item(i, answered)
          IN  IF Unknown(<<item>>) # {}
              THEN /\ phase' = "raised"
                   /\ log' = [log EXCEPT ![i] = answered]
                   /\ UNCHANGED <<setup, rewards, info, stops, terminated,
                                  truncated, turns, active, pc, stream, shard,
                                  lost>>
              ELSE \E outcome \in Outcomes :
                LET reply == CalculateRewards(<<item>>, <<outcome>>)[1]
                IN  /\ log' = [log EXCEPT ![i] =
                         Append(answered, Observation(answered, reply))]
                    /\ rewards' = [rewards EXCEPT ![i] = Append(@, reply.to)]
                    /\ terminated' = [terminated EXCEPT ![i] = reply.ends]
                    /\ truncated' = [truncated EXCEPT ![i] =
                                       Overflows(answered, reply)]
                    /\ stops' = [stops EXCEPT ![i] =
                         IF GoesOn(i) /\ reply.stops # None
                         THEN reply.stops ELSE @]
                    /\ info' = [info EXCEPT ![i] =
                         IF GoesOn(i) /\ reply.leaves # None
                         THEN reply.leaves ELSE @]
                    /\ IF GoesOn(i) /\ turns[i] < MaxTurns
                       THEN Submit(i)
                       ELSE /\ pc' = [pc EXCEPT ![i] = "done"]
                            /\ UNCHANGED <<turns, stream, shard>>
                    /\ UNCHANGED <<setup, active, lost, phase>>

\* All coroutines have returned: the batch is put together in their order.
GatherSamples ==
  /\ Async /\ phase = "running"
  /\ \A i \in Samples : pc[i] = "done"
  /\ phase' = "returned"
  /\ UNCHANGED <<setup, log, rewards, info, stops, terminated, truncated,
                 turns, active, pc, stream, shard, lost>>

SampleStep(i) ==
  \/ Start(i)
  \/ TakeSample(i)
  \/ TakeError(i)
  \/ TakeDone(i)

\* The worker answers, and ends, or fails.
WorkerStep(i) ==
  \/ ConsumeSample(i)
  \/ ConsumeEnd(i)
  \/ ConsumeError(i)

BatchStep ==
  \/ GenerateTurn
  \/ EnvironmentTurn
  \/ ReturnBatch
  \/ GatherSamples

Next == \/ BatchStep
        \/ \E i \in Samples : SampleStep(i) \/ WorkerStep(i) \/ TimesOut(i)

\* The rollout goes on while it can, and a worker that has been given a sample
\* answers or fails; no use is made of the time limit.
Fairness == /\ WF_vars(BatchStep)
            /\ WF_vars(\E i \in Samples : SampleStep(i) \/ WorkerStep(i))
Spec == Init /\ [][Next]_vars /\ Fairness

-----------------------------------------------------------------------------
\* extra_env_info when the message at position k of sample i was answered.
InfoBefore(i, k) ==
  LET set == {j \in 1..(k - 1) : log[i][j].leaves # None}
  IN  IF set = {} THEN <<i, 0>>
      ELSE log[i][CHOOSE j \in set : \A l \in set : l <= j].leaves

\* Every message of a conversation continues that conversation, every
\* environment was given the state it left there last, the reward is the sum
\* of the replies in it, and no response was cut at another sample's stop
\* strings (vLLM's synchronous worker merges those of a shard); sharding,
\* grouping by task and the shrinking active set notwithstanding
\* (rollouts.py:56-328, 372-507).
OwnConversation ==
  \A i \in Samples :
    /\ \A k \in 1..Len(log[i]) :
         /\ log[i][k].to = <<i, k - 1>>
         /\ log[i][k].role = (CASE k = 1 -> "user"
                                [] k % 2 = 0 -> "assistant"
                                [] OTHER -> "environment")
         /\ log[i][k].role = "environment" => log[i][k].with = InfoBefore(i, k)
         /\ log[i][k].role = "assistant" /\ setup.backend # "vllm" =>
              \A stop \in log[i][k].with : stop[1] = i
    /\ rewards[i] = [n \in 1..((Len(log[i]) - 1) \div 2) |-> <<i, 2 * n>>]

\* A conversation never outgrows max_seq_len, and it is marked truncated when
\* it has reached it and not otherwise; unless its only turn was lost
\* (rollouts.py:437-456, 706-717).
TruncatedAtTheLimit ==
  \A i \in Samples :
    /\ Length(log[i]) <= MaxSeqLen
    /\ Last(log[i]).role = "environment" =>
         (truncated[i] <=> Length(log[i]) = MaxSeqLen)

\* A conversation is returned when it was terminated or truncated or has had
\* all its turns, and nothing is said after that; otherwise it was broken off
\* by a worker that failed or by a time limit
\* (rollouts.py:372-373, 640-643, vllm_generation.py:563-625).
EndsForAReason ==
  \A i \in Samples :
    /\ phase = "returned" =>
         \/ /\ Last(log[i]).role = "environment"
            /\ terminated[i] \/ truncated[i] \/ turns[i] = MaxTurns
         \/ lost[i] \in {"error", "timeout"}
    /\ \A k \in 1..Len(log[i]) :
         log[i][k].ends
           \/ (log[i][k].role = "environment"
               /\ Length(SubSeq(log[i], 1, k)) = MaxSeqLen)
           => k = Len(log[i])

\* The rollout returns, or raises for a task without an environment.
RolloutReturns == <>(phase # "running")
=============================================================================
