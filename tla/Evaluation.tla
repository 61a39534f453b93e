----------------------------- MODULE Evaluation -----------------------------
(***************************************************************************)
(* run_env_eval of nemo_rl/evals/eval.py: for every batch of the dataset,  *)
(* generate several responses to each prompt, have the environment score   *)
(* them, and add up pass@k or cons@k.                                      *)
(*                                                                         *)
(* A response is known by the answer that can be read from it, a sequence  *)
(* of characters, which is empty if there is none; two spellings of the    *)
(* right answer are two answers. A score is a multiple of one over the     *)
(* factorial of num_tests_per_prompt, which makes all of them integers.    *)
(***************************************************************************)
EXTENDS Integers, Sequences, SequencesExt, FiniteSetsExt

CONSTANTS Quizzes,   \* configurations: environment, verifier, workers, metric,
                     \* tests, k, async, prompts, batch, and the undecided
                     \* answers, over which hf_math_verify raises, as when it
                     \* runs out of time
          Gold,      \* the ground truth
          Right,     \* answers that hf_math_verify finds equal to it
          Wrong

VARIABLES quiz,
          stage,     \* of the loop over the batches, or "over" or "raised"
          fetched,   \* prompts that have come out of the data loader
          samples,   \* the prompt of each sample of the batch
          arrived,   \* generate_text_async: the results so far, as they came
          responses, \* outputs of _generate_texts
          scored,    \* what env.step returned: rewards and answers
          data,      \* evaluation_data
          score
evalVars == <<quiz, stage, fetched, samples, arrived, responses, scored, data, score>>

NoAnswer == <<>>

ASSUME EvaluationAssumption ==
  /\ Gold \in Right /\ Right \cap Wrong = {}
  /\ \A q \in Quizzes : q.undecided \subseteq Wrong
  /\ NoAnswer \notin Right \cup Wrong

Answers == Right \cup Wrong \cup {NoAnswer}
Pending == "pending"

Factorial(n) == LET f[i \in 0..n] == IF i = 0 THEN 1 ELSE i * f[i - 1] IN f[n]
SumOf(seq) == LET s[i \in 0..Len(seq)] == IF i = 0 THEN 0 ELSE s[i - 1] + seq[i]
              IN  s[Len(seq)]

\* The product of i - k for the i above m up to n, times the factorial of m.
Falling(m, n, k) ==
  LET p[i \in m..n] == IF i = m THEN Factorial(m) ELSE p[i - 1] * (i - k) IN p[n]

-----------------------------------------------------------------------------
(* The environments *)

\* chunk_list_to_workers: chunks of equal size but for the last.
Chunks(list, workers) ==
  LET size == IF Len(list) <= workers THEN 1
              ELSE (Len(list) + workers - 1) \div workers
      count == IF Len(list) <= workers THEN workers
               ELSE (Len(list) + size - 1) \div size
  IN  [w \in 1..count |-> SubSeq(list, (w - 1) * size + 1,
                                       IF w * size > Len(list) THEN Len(list) ELSE w * size)]

\* Of the verifiers only hf_math_verify reads more than the spelling of an
\* answer; texts without a word of the truth have no score from "jaccard".
Accepted == IF quiz.verifier = "hf_math_verify" THEN Right ELSE {Gold}
Reward(answer) == IF answer \in Accepted THEN 1 ELSE 0

\* HFVerifyWorker.verify appends the score, and again, as 0, when it cannot
\* unpack what the verifier returns beside the score: no prediction, or with
\* dapo_math_verify, whose prediction it takes for a pair of gold and
\* predictions, anything but two characters.
ScoredTwice(answer) ==
  \/ quiz.verifier = "hf_math_verify" /\ answer = NoAnswer
  \/ quiz.verifier = "dapo_math_verify" /\ Len(answer) # 2

\* The verifier itself raises: the one score is 0.
Raises(answer) == quiz.verifier = "hf_math_verify" /\ answer \in quiz.undecided

\* The answer that is recorded for the vote of cons@k: a prediction that is
\* spelled like the gold, otherwise the first character of the first
\* prediction; the other verifiers record all of it.
Recorded(answer) ==
  IF ScoredTwice(answer) \/ Raises(answer) THEN NoAnswer
  ELSE IF quiz.verifier = "hf_math_verify" /\ answer # Gold THEN <<answer[1]>>
  ELSE IF quiz.verifier = "dapo_math_verify" THEN <<answer[2]>>
  ELSE answer

\* verify of the workers, for one response.
Verify(answer) ==
  [rewards |-> IF ScoredTwice(answer) THEN <<Reward(answer), 0>> ELSE <<Reward(answer)>>,
   answers |-> <<Recorded(answer)>>]

VerifyChunk(chunk) ==
  [rewards |-> FlattenSeq([i \in DOMAIN chunk |-> Verify(chunk[i]).rewards]),
   answers |-> FlattenSeq([i \in DOMAIN chunk |-> Verify(chunk[i]).answers])]

\* step(message_logs, metadata, return_extracted_answer = True): every worker
\* takes a chunk, the results are put together in the order of the chunks.
StepEnvironment(batch) ==
  LET chunks  == Chunks(batch, quiz.workers)
      results == [w \in DOMAIN chunks |-> VerifyChunk(chunks[w])]
  IN  [rewards |-> FlattenSeq([w \in DOMAIN results |-> results[w].rewards]),
       answers |-> FlattenSeq([w \in DOMAIN results |-> results[w].answers])]

\* CodeEnvironment asserts that no answer is asked for.
CodeStepRaises == quiz.environment = "code"

\* The steps of VLMEnvironment and RewardModelEnvironment have no such parameter.
VlmStepRaises == quiz.environment = "vlm"
RewardStepRaises == quiz.environment = "reward_model"

StepRaises == CodeStepRaises \/ VlmStepRaises \/ RewardStepRaises

-----------------------------------------------------------------------------
(* The metrics, in units of one over the factorial of num_tests_per_prompt *)

\* rewards.split(num_tests_per_prompt)
Split(list) ==
  [g \in 1..((Len(list) + quiz.tests - 1) \div quiz.tests) |->
     SubSeq(list, (g - 1) * quiz.tests + 1,
            IF g * quiz.tests > Len(list) THEN Len(list) ELSE g * quiz.tests)]

\* eval_single_chunk: 1 - prod(1 - k / arange(n - c + 1, n + 1))
ChunkPass(n, c, k) ==
  IF n - c < k THEN Factorial(n) ELSE Factorial(n) - Falling(n - c, n, k)

\* eval_pass_k
PassAtK(rewards) ==
  SumOf([g \in DOMAIN Split(rewards) |->
           ChunkPass(quiz.tests, SumOf(Split(rewards)[g]), quiz.k)])

CountIn(x, answers) == Cardinality({i \in DOMAIN answers : answers[i] = x})
FirstIn(x, answers) == Min({i \in DOMAIN answers : answers[i] = x})

\* majority_vote: the most common answer, of several the first.
MajorityVote(answers) ==
  answers[Min({i \in DOMAIN answers :
                 \A j \in DOMAIN answers :
                   CountIn(answers[j], answers) <= CountIn(answers[i], answers)})]

Pick(list, indices) ==
  LET order == SelectSeq([i \in DOMAIN list |-> i], LAMBDA i : i \in indices)
  IN  [i \in DOMAIN order |-> list[order[i]]]

\* eval_single_cons_k
ChunkCons(rewards, answers, k) ==
  LET n == Len(answers)
      subsets == kSubset(k, 1..n)
      Correct(s) == rewards[FirstIn(MajorityVote(Pick(answers, s)), answers)] = 1
  IN  IF n = 0 \/ k > n THEN 0
      ELSE Cardinality({s \in subsets : Correct(s)})
             * (Factorial(quiz.tests) \div Cardinality(subsets))

\* eval_cons_k, where its assertion holds
ConsAtK(rewards, answers) ==
  SumOf([g \in DOMAIN Split(rewards) |->
           ChunkCons(Split(rewards)[g], Split(answers)[g], quiz.k)])

-----------------------------------------------------------------------------
(* The loop *)

EvalInit ==
  /\ quiz \in Quizzes
  /\ stage = "fetch" /\ fetched = 0 /\ samples = <<>> /\ arrived = <<>>
  /\ responses = <<>> /\ scored = [rewards |-> <<>>, answers |-> <<>>]
  /\ data = <<>> /\ score = 0

\* The next batch, each prompt num_tests_per_prompt times.
FetchBatch ==
  /\ stage = "fetch" /\ fetched < quiz.prompts
  /\ LET size == IF fetched + quiz.batch > quiz.prompts THEN quiz.prompts - fetched
                 ELSE quiz.batch
     IN  /\ samples' = [i \in 1..(size * quiz.tests) |-> fetched + (i - 1) \div quiz.tests + 1]
         /\ fetched' = fetched + size
  /\ stage' = "generate"
  /\ arrived' = <<>> /\ responses' = <<>>
  /\ UNCHANGED <<quiz, scored, data, score>>

\* generate_text answers for the whole batch.
GenerateTexts ==
  /\ stage = "generate" /\ ~ quiz.async
  /\ responses' \in [DOMAIN samples -> Answers]
  /\ stage' = "step"
  /\ UNCHANGED <<quiz, fetched, samples, arrived, scored, data, score>>

\* generate_text_async yields the samples as they are finished.
TextArrives ==
  /\ stage = "generate" /\ quiz.async
  /\ \E i \in DOMAIN samples \ {arrived[j][1] : j \in DOMAIN arrived}, a \in Answers :
       arrived' = Append(arrived, <<i, a>>)
  /\ UNCHANGED <<quiz, stage, fetched, samples, responses, scored, data, score>>

\* Mutant: in the order they came.
TextsAsTheyCame(results) == [j \in DOMAIN results |-> results[j][2]]

\* results.sort(key=lambda x: x[0])
Sorted(results) ==
  LET inOrder == SortSeq(results, LAMBDA r, s : r[1] < s[1])
  IN  [j \in DOMAIN inOrder |-> inOrder[j][2]]

CollectTexts ==
  /\ stage = "generate" /\ quiz.async /\ Len(arrived) = Len(samples)
  /\ responses' = Sorted(arrived)
  /\ stage' = "step"
  /\ UNCHANGED <<quiz, fetched, samples, arrived, scored, data, score>>

\* env.step, and the samples for the file: zip stops at the shortest list.
ScoreBatch ==
  /\ stage = "step"
  /\ IF StepRaises
     THEN stage' = "raised" /\ UNCHANGED <<scored, data>>
     ELSE /\ scored' = StepEnvironment(responses)
          /\ data' = data \o [i \in DOMAIN samples |->
                                [prompt |-> samples[i], response |-> responses[i],
                                 reward |-> scored'.rewards[i]]]
          /\ stage' = "count"
  /\ UNCHANGED <<quiz, fetched, samples, arrived, responses, score>>

\* The statistics; eval_cons_k asserts as many answers as rewards.
UpdateStats ==
  /\ stage = "count"
  /\ CASE quiz.metric = "pass@k" ->
            score' = score + PassAtK(scored.rewards) /\ stage' = "fetch"
       [] quiz.metric = "cons@k" /\ Len(scored.rewards) = Len(scored.answers) ->
            /\ score' = score + ConsAtK(scored.rewards, scored.answers)
            /\ stage' = "fetch"
       [] OTHER -> stage' = "raised" /\ UNCHANGED score
  /\ UNCHANGED <<quiz, fetched, samples, arrived, responses, scored, data>>

\* Environment and engine are shut down, data and results written.
FinishEvaluation ==
  /\ stage = "fetch" /\ fetched = quiz.prompts
  /\ stage' = "over"
  /\ UNCHANGED <<quiz, fetched, samples, arrived, responses, scored, data, score>>

EvalNext == \/ FetchBatch
            \/ GenerateTexts
            \/ TextArrives
            \/ CollectTexts
            \/ ScoreBatch
            \/ UpdateStats
            \/ FinishEvaluation

-----------------------------------------------------------------------------
\* The responses to a prompt, in order.
ResponsesTo(p) ==
  LET OfPrompt(e) == e.prompt = p
      entries == SelectSeq(data, OfPrompt)
  IN  [i \in DOMAIN entries |-> entries[i].response]

\* A subset of responses passes if one of them is right; it agrees on a right
\* answer if more of them give it than any answer before it, and no fewer than
\* any after.
Passes(list) == \E i \in DOMAIN list : list[i] \in Accepted
Agrees(list) ==
  \E i \in DOMAIN list :
    /\ list[i] \in Accepted
    /\ \A j \in DOMAIN list :
         list[j] # list[i] =>
           \/ CountIn(list[j], list) < CountIn(list[i], list)
           \/ /\ CountIn(list[j], list) = CountIn(list[i], list)
              /\ FirstIn(list[i], list) < FirstIn(list[j], list)

\* The share of the k-subsets of the responses to a prompt.
Share(p) ==
  LET subsets == kSubset(quiz.k, 1..quiz.tests)
      Counts(s) == IF quiz.metric = "pass@k" THEN Passes(Pick(ResponsesTo(p), s))
                                             ELSE Agrees(Pick(ResponsesTo(p), s))
  IN  Cardinality({s \in subsets : Counts(s)})
        * (Factorial(quiz.tests) \div Cardinality(subsets))

AllScoredOnce == \A i \in DOMAIN data : ~ ScoredTwice(data[i].response)

\* No two answers to a prompt are recorded as the same.
KeptApart ==
  \A d, e \in ToSet(data) :
    d.prompt = e.prompt /\ Recorded(d.response) = Recorded(e.response) =>
      d.response = e.response

\* An evaluation that ends has added up, over all prompts, the share of the
\* k-subsets of a prompt's responses that pass or agree, and has recorded every
\* response for its own prompt and with its own reward -- unless a response was
\* scored twice, which shifts the rewards behind it (with one test per prompt
\* the sum is right even then), or, for cons@k, different answers to a prompt
\* vote as one because only a character of them is recorded (eval.py:175-280,
\* math_environment.py:107-139, utils.py:52-96).
ScoresAreRight ==
  /\ /\ stage = "over"
     /\ AllScoredOnce \/ quiz.tests = 1
     /\ quiz.metric = "cons@k" => KeptApart
     => score = SumOf([p \in 1..quiz.prompts |-> Share(p)])
  /\ quiz.async /\ stage = "count" =>
       \A j \in DOMAIN arrived :
         data[Len(data) - Len(samples) + arrived[j][1]].response = arrived[j][2]
  /\ AllScoredOnce => \A i \in DOMAIN data : data[i].reward = Reward(data[i].response)
=============================================================================
