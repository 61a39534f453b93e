--------------------------- MODULE SyncGRPO_proofs ---------------------------
(***************************************************************************)
(* For every number of prompts, batches, epochs, steps and runs: rollouts  *)
(* of SyncGRPO use the policy's current weights, policy and engine never   *)
(* need the same GPU memory, every variable keeps its type, no prompt is   *)
(* trained on twice, no batch is skipped unless dynamic sampling does, and *)
(* the weights training ends with are saved.                               *)
(***************************************************************************)
EXTENDS SyncGRPO, FiniteSetTheorems, SequenceTheorems, TLAPS

\* The flag is reset only when the engine has the policy's weights, and set
\* before they change; where a rollout is about to start it is not set.
StaleInv ==
  /\ ~stale => engine = {policy}
  /\ pc \in {"offload", "wakeCache"} => engine = {policy}
  /\ pc \in {"wake", "generate"} => ~stale

\* Who is on the GPU, by the place of the loop.
MemoryInv ==
  /\ pc \in {"epoch", "fetch", "prepare", "wakeWeights", "wake", "filter",
             "logprobs", "train", "save", "done"} => engineMem = {}
  /\ pc \in {"wakeWeights", "transfer", "offload"} =>
       "optimizer" \notin policyMem
  /\ pc \in {"transfer", "offload", "wakeCache"} =>
       "kv_cache" \notin engineMem
  /\ pc \in {"wakeCache", "wake", "generate"} => policyMem = {}
  /\ GpuShared

USE DEF config, counters, sampling, memory

-----------------------------------------------------------------------------
(* The weights the engine has.                                             *)

\* What the filter does touches neither weights nor memory, and does not lead
\* to a rollout.
LEMMA DynamicSamplingKeeps ==
  ASSUME DynamicSampling
  PROVE  /\ pc = "filter"
         /\ pc' \in {"logprobs", "fetch", "failed"}
         /\ UNCHANGED <<policy, engine, stale, policyMem, engineMem>>
BY DEF DynamicSampling, EnoughPrompts, TooFewPrompts, SamplingRaises, Filtered,
       Goto

\* Every step keeps what the flag says about the engine's weights.
LEMMA StaleStep == StaleInv /\ [Next]_vars => StaleInv'
<1> SUFFICES ASSUME StaleInv, [Next]_vars
             PROVE  StaleInv'
  OBVIOUS
<1> USE DEF StaleInv
<1>1. CASE Setup
  BY <1>1 DEF Setup, StartRun, Prepare, Goto
<1>2. CASE Crash
  BY <1>2 DEF Crash, Goto
<1>3. CASE BeginEpoch \/ NoMoreEpochs \/ EndEpoch
  BY <1>3 DEF BeginEpoch, NoMoreEpochs, EndEpoch, Goto
<1>4. CASE Fetch
  BY <1>4 DEF Fetch, Prepare, Goto
<1>5. CASE OffloadBeforeRefit \/ WakeWeights \/ RefitFails
  BY <1>5 DEF OffloadBeforeRefit, WakeWeights, RefitFails, Moves, Goto
<1>6. CASE TransferWeights
  BY <1>6 DEF TransferWeights, Goto
<1>7. CASE OffloadAfterRefit
  BY <1>7 DEF OffloadAfterRefit, Moves, Goto
<1>8. CASE WakeCache
  BY <1>8 DEF WakeCache, Goto
<1>9. CASE OffloadForGeneration \/ WakeEngine
  BY <1>9 DEF OffloadForGeneration, WakeEngine, Moves, Goto
<1>10. CASE Rollouts
  BY <1>10 DEF Rollouts, Goto
<1>11. CASE Validate
  BY <1>11 DEF Validate, Moves, Goto
<1>12. CASE TakeBatch
  BY <1>12 DEF TakeBatch, Filtered, Goto
<1>13. CASE DynamicSampling
  BY <1>13, DynamicSamplingKeeps
<1>14. CASE Logprobs
  BY <1>14 DEF Logprobs, Moves, Goto
<1>15. CASE Train
  BY <1>15 DEF Train, Trained, Prepare, Goto
<1>16. CASE \E early \in BOOLEAN : Save(early) \/ SkipSave(early)
  BY <1>16 DEF Save, SkipSave, EndStep, Goto
<1>17. CASE UNCHANGED vars
  BY <1>17 DEF vars
<1> QED
  BY <1>1, <1>2, <1>3, <1>4, <1>5, <1>6, <1>7, <1>8, <1>9, <1>10, <1>11, <1>12,
     <1>13, <1>14, <1>15, <1>16, <1>17 DEF Next

\* Every rollout and every validation runs on the policy's current weights,
\* although grpo_train transfers them only when POLICY_GENERATION_STALE says so.
THEOREM RolloutsAreFresh == Spec => []FreshRollouts
<1>1. Init => StaleInv
  BY DEF Init, StaleInv
<1>2. StaleInv => FreshRollouts
  BY DEF StaleInv, FreshRollouts
<1> QED
  BY <1>1, <1>2, StaleStep, PTL DEF Spec

-----------------------------------------------------------------------------
(* The memory of the GPU.                                                  *)

\* Every step keeps policy and engine apart on the GPUs.
LEMMA MemoryStep == MemoryInv /\ [Next]_vars => MemoryInv'
<1> SUFFICES ASSUME MemoryInv, [Next]_vars
             PROVE  MemoryInv'
  OBVIOUS
<1> USE DEF MemoryInv, GpuShared, PolicyParts, EngineParts
<1>1. CASE Setup
  BY <1>1 DEF Setup, StartRun, Prepare, Goto
<1>2. CASE Crash
  BY <1>2 DEF Crash, Goto
<1>3. CASE BeginEpoch \/ NoMoreEpochs \/ EndEpoch
  BY <1>3 DEF BeginEpoch, NoMoreEpochs, EndEpoch, Goto
<1>4. CASE Fetch
  BY <1>4 DEF Fetch, Prepare, Goto
<1>5. CASE OffloadBeforeRefit \/ WakeWeights \/ RefitFails
  BY <1>5 DEF OffloadBeforeRefit, WakeWeights, RefitFails, Moves, Goto
<1>6. CASE TransferWeights
  BY <1>6 DEF TransferWeights, Goto
<1>7. CASE OffloadAfterRefit
  BY <1>7 DEF OffloadAfterRefit, Moves, Goto
<1>8. CASE WakeCache
  BY <1>8 DEF WakeCache, Goto
<1>9. CASE OffloadForGeneration \/ WakeEngine
  BY <1>9 DEF OffloadForGeneration, WakeEngine, Moves, Goto
<1>10. CASE Rollouts
  BY <1>10 DEF Rollouts, Goto
<1>11. CASE Validate
  BY <1>11 DEF Validate, Moves, Goto
<1>12. CASE TakeBatch
  BY <1>12 DEF TakeBatch, Filtered, Goto
<1>13. CASE DynamicSampling
  BY <1>13, DynamicSamplingKeeps
<1>14. CASE Logprobs
  BY <1>14 DEF Logprobs, Moves, Goto
<1>15. CASE Train
  BY <1>15 DEF Train, Trained, Prepare, Goto
<1>16. CASE \E early \in BOOLEAN : Save(early) \/ SkipSave(early)
  BY <1>16 DEF Save, SkipSave, EndStep, Goto
<1>17. CASE UNCHANGED vars
  BY <1>17 DEF vars
<1> QED
  BY <1>1, <1>2, <1>3, <1>4, <1>5, <1>6, <1>7, <1>8, <1>9, <1>10, <1>11, <1>12,
     <1>13, <1>14, <1>15, <1>16, <1>17 DEF Next

\* Colocated policy and engine never need the same GPU memory: whenever the
\* engine holds its cache the policy is offloaded, and whenever it holds its
\* weights the optimizer is.
THEOREM MemoryIsShared == Spec => []GpuShared
<1>1. Init => MemoryInv
  BY DEF Init, MemoryInv, GpuShared
<1>2. MemoryInv => GpuShared
  BY DEF MemoryInv
<1> QED
  BY <1>1, <1>2, MemoryStep, PTL DEF Spec

-----------------------------------------------------------------------------
(* Types and bounds.                                                       *)

\* The engine is being prepared, or generates.
Preparing == pc \in {"prepare", "wakeWeights", "transfer", "offload",
                     "wakeCache", "wake", "generate"}

\* A batch was fetched, and its step or its part of a step is not finished.
InStep == \/ pc \in {"filter", "logprobs", "train", "save"}
          \/ Preparing /\ goal # "initial"

\* An epoch has no more steps than batches fetched, and a step is only begun
\* below the limits; so it is with what was saved.
CountersInv ==
  /\ step <= pos
  /\ InStep => step < pos
  /\ InStep \/ pc = "fetch" => epoch < MaxEpochs /\ total < maxSteps
  /\ pc = "fetch" \/ (Preparing /\ goal = "rollout") => numGen <= MaxGenBatches
  /\ \A c \in saved : /\ c.epoch <= MaxEpochs
                      /\ c.step <= c.pos
                      /\ c.pos <= EpochBatches
                      /\ c.total <= maxSteps

TypeInv == TypeOK /\ CountersInv

\* The facts about the constants that the proofs use.
LEMMA Constants ==
  /\ NumPrompts \in Nat /\ NumPrompts > 0
  /\ BatchSize \in Nat
  /\ MaxGenBatches \in Nat
  /\ EpochBatches \in Nat /\ EpochBatches > 0
  /\ MaxEpochs \in Nat
  /\ StepLimits \subseteq Nat
  /\ MaxRuns \in Nat /\ MaxRuns > 0
  /\ Modes \subseteq BOOLEAN
BY SyncAssumption DEF SyncAssumption

\* A set of one element is finite and has one.
LEMMA OneElement ==
  ASSUME NEW x
  PROVE  Cardinality({x}) = 1 /\ IsFiniteSet({x})
BY FS_Singleton

\* The prompts of a batch.
LEMMA BatchPrompts ==
  ASSUME TypeOK, NEW n \in Nat
  PROVE  /\ OfBatch(n) \in Seq(Prompt)
         /\ Len(OfBatch(n)) = n
         /\ \A i \in 1..n :
              OfBatch(n)[i] = [epoch |-> epoch, batch |-> pos, no |-> i]
<1>1. epoch \in Nat /\ pos \in Nat
  BY Constants DEF TypeOK
<1> QED
  BY <1>1 DEF OfBatch, Prompt

\* The cache together with the prompts of a batch.
LEMMA JoinedPrompts ==
  ASSUME TypeOK, NEW n \in Nat
  PROVE  /\ cache \o OfBatch(n) \in Seq(Prompt)
         /\ Len(cache \o OfBatch(n)) = Len(cache) + n
         /\ \A i \in 1..Len(cache) : (cache \o OfBatch(n))[i] = cache[i]
         /\ \A i \in Len(cache) + 1 .. Len(cache) + n :
              (cache \o OfBatch(n))[i] = OfBatch(n)[i - Len(cache)]
<1>1. cache \in Seq(Prompt) /\ Len(cache) \in Nat
  BY DEF TypeOK
<1>2. OfBatch(n) \in Seq(Prompt) /\ Len(OfBatch(n)) = n
  BY BatchPrompts
<1> QED
  BY <1>1, <1>2

\* The first of a sequence of prompts, as a set.
LEMMA FirstPrompts ==
  ASSUME NEW s \in Seq(Prompt), NEW n \in Nat, n <= Len(s)
  PROVE  /\ ToSet(SubSeq(s, 1, n)) = {s[i] : i \in 1..n}
         /\ {s[i] : i \in 1..n} \subseteq Prompt
<1>1. /\ SubSeq(s, 1, n) \in Seq(Prompt)
      /\ Len(SubSeq(s, 1, n)) = n
      /\ \A i \in 1..n : SubSeq(s, 1, n)[i] = s[i]
  OBVIOUS
<1>2. \A i \in 1..n : s[i] \in Prompt
  OBVIOUS
<1>3. DOMAIN SubSeq(s, 1, n) = 1..n
  BY <1>1
<1> QED
  BY <1>1, <1>2, <1>3 DEF ToSet

\* Every step keeps the types.
LEMMA TypeStep == TypeInv /\ [Next]_vars => TypeInv'
<1> SUFFICES ASSUME TypeInv, [Next]_vars
             PROVE  TypeInv'
  OBVIOUS
<1> USE Constants DEF TypeInv, TypeOK, CountersInv, InStep, Preparing, Pcs, Goals
<1>1. CASE Setup
  <2>1. PICK from \in (IF saved = {} THEN {Fresh} ELSE saved) : StartRun(from)
    BY <1>1 DEF Setup
  <2>2. /\ from \in SaveState
        /\ from.epoch <= MaxEpochs
        /\ from.step <= from.pos
        /\ from.pos <= EpochBatches
        /\ from.total <= maxSteps
    BY <2>1 DEF Fresh, SaveState
  <2>3. /\ from.epoch \in Nat /\ from.step \in Nat /\ from.total \in Nat
        /\ from.pos \in Nat /\ from.policy \subseteq Prompt
    BY <2>2 DEF SaveState
  <2>4. /\ epoch' = from.epoch /\ step' = from.step /\ total' = from.total
        /\ pos' = from.pos /\ policy' = from.policy /\ stale' = TRUE /\ engine' = {}
        /\ policyMem' = PolicyParts /\ engineMem' = {}
    BY <2>1 DEF StartRun
  <2>5. /\ pc' \in {"prepare", "epoch"}
        /\ pc' = "prepare" => goal' = "initial"
        /\ pc' # "prepare" => goal' = goal
    BY <2>1 DEF StartRun, Prepare, Goto
  <2>6. UNCHANGED <<config, saved, run>> /\ pc = "setup"
    BY <1>1 DEF Setup
  <2>7. /\ dynamic' = dynamic /\ maxSteps' = maxSteps /\ numGen' = numGen
        /\ cache' = cache /\ batch' = batch /\ saved' = saved /\ run' = run
    BY <1>1 DEF Setup, config, sampling
  <2>8. /\ epoch' \in 0..MaxEpochs /\ step' \in 0..EpochBatches /\ total' \in 0..maxSteps'
        /\ pos' \in 0..EpochBatches /\ step' <= pos'
    BY <2>2, <2>3, <2>4, <2>7
  <2>9. Cardinality(engine') <= 1 /\ (\A w \in engine' : w \subseteq Prompt)
    BY <2>4, FS_EmptySet
  <2>10. TypeOK'
    BY <2>3, <2>4, <2>5, <2>7, <2>8, <2>9
  <2>11. CountersInv'
    BY <2>5, <2>7, <2>8
  <2> QED BY <2>10, <2>11
<1>2. CASE Crash
  BY <1>2 DEF Crash, Goto
<1>3. CASE BeginEpoch \/ NoMoreEpochs \/ EndEpoch
  <2>1. CASE BeginEpoch
    BY <2>1 DEF BeginEpoch, Goto
  <2>2. CASE NoMoreEpochs
    BY <2>2 DEF NoMoreEpochs, Goto
  <2>3. CASE EndEpoch
    <3>1. /\ pc = "fetch" /\ epoch < MaxEpochs
          /\ pc' = "epoch" /\ epoch' = epoch + 1 /\ step' = 0 /\ pos' = 0
          /\ UNCHANGED <<config, goal, total, sampling, policy, engine, stale,
                         memory, saved, run>>
      BY <2>3 DEF EndEpoch, Goto
    <3>2. TypeOK'
      BY <3>1
    <3>3. CountersInv'
      BY <3>1
    <3> QED
      BY <3>2, <3>3
  <2> QED
    BY <1>3, <2>1, <2>2, <2>3
<1>4. CASE Fetch
  BY <1>4 DEF Fetch, Prepare, Goto
<1>5. CASE OffloadBeforeRefit \/ WakeWeights \/ RefitFails
  BY <1>5 DEF OffloadBeforeRefit, WakeWeights, RefitFails, Moves, Goto,
              EngineParts
<1>6. CASE TransferWeights
  <2>1. engine' = {policy}
    BY <1>6 DEF TransferWeights
  <2>2. Cardinality({policy}) = 1
    BY OneElement
  <2>3. Cardinality(engine') <= 1
    BY <2>1, <2>2
  <2> QED
    BY <1>6, <2>1, <2>3 DEF TransferWeights, Goto
<1>7. CASE OffloadAfterRefit
  BY <1>7 DEF OffloadAfterRefit, Moves, Goto
<1>8. CASE WakeCache
  BY <1>8 DEF WakeCache, Goto, EngineParts
<1>9. CASE OffloadForGeneration \/ WakeEngine
  BY <1>9 DEF OffloadForGeneration, WakeEngine, Moves, Goto
<1>10. CASE Rollouts
  BY <1>10 DEF Rollouts, Goto
<1>11. CASE Validate
  BY <1>11 DEF Validate, Moves, Goto
<1>12. CASE TakeBatch
  <2>1. ToSet(OfBatch(NumPrompts)) \subseteq Prompt
    <3>1. OfBatch(NumPrompts) \in Seq(Prompt)
      BY BatchPrompts
    <3> QED
      BY <3>1 DEF ToSet
  <2> QED
    BY <1>12, <2>1 DEF TakeBatch, Filtered, Goto
<1>13. CASE DynamicSampling
  <2>1. PICK n \in 0..BatchSize :
          EnoughPrompts(n) \/ TooFewPrompts(n) \/ SamplingRaises(n)
    BY <1>13 DEF DynamicSampling
  <2>2. cache \o OfBatch(n) \in Seq(Prompt)
        /\ Len(cache \o OfBatch(n)) = Len(cache) + n
    <3>1. TypeOK /\ n \in Nat
      BY DEF TypeInv
    <3> QED
      BY <3>1, JoinedPrompts
  <2>3. CASE EnoughPrompts(n)
    <3>1. ToSet(SubSeq(cache \o OfBatch(n), 1, NumPrompts)) \subseteq Prompt
      BY <2>2, <2>3, FirstPrompts DEF EnoughPrompts
    <3> QED
      BY <2>2, <2>3, <3>1 DEF EnoughPrompts, Filtered, Goto
  <2>4. CASE TooFewPrompts(n)
    BY <2>2, <2>4 DEF TooFewPrompts, Filtered, Goto
  <2>5. CASE SamplingRaises(n)
    BY <2>2, <2>5 DEF SamplingRaises, Filtered, Goto
  <2> QED
    BY <2>1, <2>3, <2>4, <2>5
<1>14. CASE Logprobs
  BY <1>14 DEF Logprobs, Moves, Goto, PolicyParts
<1>15. CASE Train
  BY <1>15 DEF Train, Trained, Prepare, Goto, PolicyParts
<1>16. CASE \E early \in BOOLEAN : Save(early) \/ SkipSave(early)
  <2>1. PICK early \in BOOLEAN : Save(early) \/ SkipSave(early)
    BY <1>16
  <2>2. CASE Save(early)
    <3> DEFINE c == [epoch |-> epoch, step |-> step + 1, total |-> total + 1,
                     pos |-> pos, policy |-> policy]
    <3>1. saved' = {c} /\ c \in SaveState
      BY <2>2 DEF Save, SaveState
    <3>2. /\ c.epoch <= MaxEpochs /\ c.step <= c.pos /\ c.pos <= EpochBatches
          /\ c.total <= maxSteps
      BY <2>2 DEF Save
    <3> HIDE DEF c
    <3>3. Cardinality(saved') <= 1
      <4>1. Cardinality({c}) = 1
        BY OneElement
      <4> QED
        BY <3>1, <4>1
    <3> QED
      BY <2>2, <3>1, <3>2, <3>3 DEF Save, EndStep, Goto
  <2>3. CASE SkipSave(early)
    BY <2>3 DEF SkipSave, EndStep, Goto
  <2> QED
    BY <2>1, <2>2, <2>3
<1>17. CASE UNCHANGED vars
  BY <1>17 DEF vars
<1> QED
  BY <1>1, <1>2, <1>3, <1>4, <1>5, <1>6, <1>7, <1>8, <1>9, <1>10, <1>11, <1>12,
     <1>13, <1>14, <1>15, <1>16, <1>17 DEF Next

\* The variables have their types at the start.
LEMMA TypeInit == Init => TypeInv
BY Constants, FS_EmptySet
DEF Init, TypeInv, TypeOK, CountersInv, InStep, Preparing, Pcs, Goals

\* Every variable of SyncGRPO keeps its type; in particular the counters stay
\* within the limits of epochs, steps and generated batches.
THEOREM SyncTypeCorrect == Spec => []TypeOK
<1>1. TypeInv => TypeOK
  BY DEF TypeInv
<1> QED
  BY <1>1, TypeInit, TypeStep, PTL DEF Spec

-----------------------------------------------------------------------------
(* Which prompts were trained on.                                          *)

\* The batch at pos was fetched and not yet filtered.
Rolling == pc = "filter" \/ (Preparing /\ goal = "rollout")

\* The step's batch is in the weights, and the step is not counted yet.
Learnt == pc = "save" \/ (Preparing /\ goal = "validation")

\* The dataloader yielded a prompt before it came to this place.
Yielded(p, e, b) == p.epoch < e \/ (p.epoch = e /\ p.batch <= b)

\* The weights, after so many steps and at this place of the dataloader.
TrainedTo(w, steps, e, b) ==
  /\ IsFiniteSet(w)
  /\ Cardinality(w) = NumPrompts * steps
  /\ \A p \in w : Yielded(p, e, b)

\* The last batch whose prompts may be in the weights or the cache.
LastSeen == IF Rolling THEN pos - 1 ELSE pos

PolicyInv ==
  pc \notin {"setup", "failed"} =>
    TrainedTo(policy, IF Learnt THEN total + 1 ELSE total, epoch, LastSeen)

\* Distinct prompts that were not trained on.
CacheInv ==
  pc = "fetch" \/ Rolling =>
    /\ \A i \in 1..Len(cache) : /\ Yielded(cache[i], epoch, LastSeen)
                                /\ cache[i] \notin policy
    /\ \A i, j \in 1..Len(cache) : cache[i] = cache[j] => i = j

BatchInv ==
  pc \in {"logprobs", "train"} =>
    /\ TrainedTo(batch, 1, epoch, pos)
    /\ batch \cap policy = {}

SavedInv == \A c \in saved : TrainedTo(c.policy, c.total, c.epoch, c.pos)

TrainInv == TypeInv /\ PolicyInv /\ CacheInv /\ BatchInv /\ SavedInv

\* The first n of distinct prompts are n.
LEMMA DistinctPrompts ==
  ASSUME NEW s \in Seq(Prompt), NEW n \in Nat, n <= Len(s),
         \A i, j \in 1..Len(s) : s[i] = s[j] => i = j
  PROVE  LET T == {s[i] : i \in 1..n}
         IN  IsFiniteSet(T) /\ Cardinality(T) = n
<1> DEFINE T == {s[i] : i \in 1..n}
           f == [i \in 1..n |-> s[i]]
<1>1. f \in Bijection(1..n, T)
  <2>1. f \in [1..n -> T] /\ \A i \in 1..n : f[i] = s[i]
    OBVIOUS
  <2>2. \A i, j \in 1..n : f[i] = f[j] => i = j
    BY <2>1
  <2>3. \A t \in T : \E i \in 1..n : f[i] = t
    BY <2>1
  <2> HIDE DEF f
  <2> QED
    BY <2>1, <2>2, <2>3 DEF Bijection, Injection, Surjection, IsInjective
<1>2. IsFiniteSet(1..n) /\ Cardinality(1..n) = n
  BY FS_Interval
<1>3. ExistsBijection(1..n, T)
  BY <1>1 DEF ExistsBijection
<1> HIDE DEF T, f
<1>4. IsFiniteSet(T) /\ Cardinality(T) = Cardinality(1..n)
  BY <1>2, <1>3, FS_Bijection
<1> QED
  BY <1>2, <1>4 DEF T

\* The cache with the prompts of the batch just rolled out: all are distinct,
\* none was trained on.
LEMMA JoinedDistinct ==
  ASSUME TrainInv, pc = "filter", NEW n \in Nat
  PROVE  LET s == cache \o OfBatch(n)
         IN  /\ \A i \in 1..Len(s) : /\ Yielded(s[i], epoch, pos)
                                     /\ s[i] \notin policy
             /\ \A i, j \in 1..Len(s) : s[i] = s[j] => i = j
<1> DEFINE s == cache \o OfBatch(n)
           L == Len(cache)
<1>1. /\ epoch \in Nat /\ pos \in Nat /\ L \in Nat
      /\ \A i \in 1..L : cache[i] \in Prompt
      /\ policy \subseteq Prompt
  BY Constants DEF TrainInv, TypeInv, TypeOK
<1>2. TypeOK
  BY DEF TrainInv, TypeInv
<1>3. /\ Len(s) = L + n
      /\ \A i \in 1..L : s[i] = cache[i]
      /\ \A i \in L + 1 .. L + n : s[i] = OfBatch(n)[i - L]
  BY <1>2, JoinedPrompts
<1>4. \A i \in 1..n : OfBatch(n)[i] = [epoch |-> epoch, batch |-> pos, no |-> i]
  BY <1>2, BatchPrompts
<1>5. \A i \in L + 1 .. L + n :
        s[i].epoch = epoch /\ s[i].batch = pos /\ s[i].no = i - L
  <2> HIDE DEF s, L
  <2> TAKE i \in L + 1 .. L + n
  <2>1. i - L \in 1..n
    BY <1>1
  <2>2. s[i] = [epoch |-> epoch, batch |-> pos, no |-> i - L]
    BY <1>3, <1>4, <2>1
  <2> QED
    BY <2>2
<1>6. \A p \in policy : Yielded(p, epoch, pos - 1)
  BY DEF TrainInv, PolicyInv, TrainedTo, LastSeen, Rolling, Learnt
<1>7. /\ \A i \in 1..L : Yielded(s[i], epoch, pos - 1) /\ s[i] \notin policy
      /\ \A i, j \in 1..L : s[i] = s[j] => i = j
  BY <1>3 DEF TrainInv, CacheInv, LastSeen, Rolling
<1> HIDE DEF s, L
<1>8. \A i \in L + 1 .. L + n : Yielded(s[i], epoch, pos) /\ s[i] \notin policy
  BY <1>1, <1>5, <1>6 DEF Yielded
<1>9. \A i \in 1..L : Yielded(s[i], epoch, pos)
  <2>1. \A i \in 1..L : s[i] \in Prompt
    BY <1>1, <1>3
  <2> QED
    BY <1>1, <1>7, <2>1 DEF Yielded, Prompt
<1>10. \A i \in 1..L, j \in L + 1 .. L + n : s[i] # s[j]
  BY <1>1, <1>5, <1>7 DEF Yielded
<1>11. \A i, j \in L + 1 .. L + n : s[i] = s[j] => i = j
  BY <1>1, <1>5
<1>12. \A i \in 1..Len(s) : i \in 1..L \/ i \in L + 1 .. L + n
  BY <1>1, <1>3
<1>13. \A i \in 1..Len(s) : Yielded(s[i], epoch, pos) /\ s[i] \notin policy
  BY <1>7, <1>8, <1>9, <1>12
<1>14. \A i, j \in 1..Len(s) : s[i] = s[j] => i = j
  BY <1>7, <1>10, <1>11, <1>12
<1> QED
  BY <1>13, <1>14 DEF s

\* Steps that move only memory, engine and flag, on the way to a rollout or a
\* validation.
LEMMA PreparingKeeps ==
  ASSUME TrainInv, Preparing, Preparing',
         UNCHANGED <<goal, epoch, total, pos, cache, policy, saved>>
  PROVE  PolicyInv' /\ CacheInv' /\ BatchInv' /\ SavedInv'
<1>1. PolicyInv'
  BY DEF TrainInv, PolicyInv, TrainedTo, LastSeen, Rolling, Learnt, Preparing,
         Yielded
<1>2. CacheInv'
  BY DEF TrainInv, CacheInv, LastSeen, Rolling, Preparing, Yielded
<1>3. BatchInv'
  BY DEF BatchInv, Preparing
<1>4. SavedInv'
  BY DEF TrainInv, SavedInv, TrainedTo, Yielded
<1> QED
  BY <1>1, <1>2, <1>3, <1>4

\* Weights and saved states stay as they are.
LEMMA SavedKept ==
  ASSUME SavedInv, UNCHANGED saved
  PROVE  SavedInv'
BY DEF SavedInv, TrainedTo, Yielded

\* At a later place of the dataloader the same prompts were yielded.
LEMMA LaterPlace ==
  ASSUME NEW w \in SUBSET Prompt, NEW steps, NEW e \in Nat, NEW b \in Int,
         NEW c \in Int,
         TrainedTo(w, steps, e, b)
  PROVE  /\ b <= c => TrainedTo(w, steps, e, c)
         /\ TrainedTo(w, steps, e + 1, c)
<1>1. \A p \in w : p.epoch \in Nat /\ p.batch \in Nat /\ Yielded(p, e, b)
  BY DEF TrainedTo, Prompt
<1>2. b <= c => \A p \in w : Yielded(p, e, c)
  BY <1>1 DEF Yielded
<1>3. \A p \in w : Yielded(p, e + 1, c)
  BY <1>1 DEF Yielded
<1> QED
  BY <1>2, <1>3 DEF TrainedTo

\* A step's batch joins the weights.
LEMMA OneMoreStep ==
  ASSUME NEW w, NEW more, NEW steps \in Nat, NEW e, NEW b,
         TrainedTo(w, steps, e, b), TrainedTo(more, 1, e, b), more \cap w = {}
  PROVE  TrainedTo(w \cup more, steps + 1, e, b)
<1>1. /\ IsFiniteSet(w) /\ Cardinality(w) = NumPrompts * steps
      /\ IsFiniteSet(more) /\ Cardinality(more) = NumPrompts
  BY Constants DEF TrainedTo
<1>2. /\ IsFiniteSet(w \cup more)
      /\ Cardinality(w \cup more) =
           Cardinality(w) + Cardinality(more) - Cardinality(w \cap more)
  BY <1>1, FS_Union
<1>3. Cardinality(w \cap more) = 0
  <2>1. w \cap more = {}
    OBVIOUS
  <2> QED
    BY <2>1, FS_EmptySet
<1>4. Cardinality(w \cup more) = NumPrompts * steps + NumPrompts
  <2>1. NumPrompts * steps \in Nat /\ NumPrompts \in Nat
    BY Constants
  <2> QED
    BY <1>1, <1>2, <1>3, <2>1
<1>5. NumPrompts * (steps + 1) = NumPrompts * steps + NumPrompts
  BY Constants
<1>6. \A p \in w \cup more : Yielded(p, e, b)
  BY DEF TrainedTo
<1> QED
  BY <1>2, <1>4, <1>5, <1>6 DEF TrainedTo

\* Every step keeps the prompts of the step fresh.
LEMMA TrainStep == TrainInv /\ [Next]_vars => TrainInv'
<1> SUFFICES ASSUME TrainInv, [Next]_vars
             PROVE  TrainInv'
  OBVIOUS
<1>0. TypeInv'
  BY TypeStep DEF TrainInv
<1> SUFFICES PolicyInv' /\ CacheInv' /\ BatchInv' /\ SavedInv'
  BY <1>0 DEF TrainInv
<1>a. /\ TypeOK /\ PolicyInv /\ CacheInv /\ BatchInv /\ SavedInv
      /\ epoch \in Nat /\ pos \in Nat /\ total \in Nat
      /\ policy \subseteq Prompt
  BY Constants DEF TrainInv, TypeInv, TypeOK
<1>1. CASE Setup
  <2>1. PICK from \in (IF saved = {} THEN {Fresh} ELSE saved) : StartRun(from)
    BY <1>1 DEF Setup
  <2>2. TrainedTo(from.policy, from.total, from.epoch, from.pos)
    <3>1. CASE from \in saved
      BY <1>a, <3>1 DEF SavedInv
    <3>2. CASE from = Fresh
      BY <3>2, FS_EmptySet, Constants DEF Fresh, TrainedTo
    <3> QED
      BY <2>1, <3>1, <3>2
  <2>3. /\ policy' = from.policy /\ total' = from.total
        /\ epoch' = from.epoch /\ pos' = from.pos
        /\ \/ pc' = "prepare" /\ goal' = "initial"
           \/ pc' = "epoch"
        /\ saved' = saved
    BY <1>1, <2>1 DEF Setup, StartRun, Prepare, Goto
  <2>4. ~Rolling' /\ ~Learnt' /\ LastSeen' = pos'
    BY <2>3 DEF Rolling, Learnt, LastSeen, Preparing
  <2>5. PolicyInv'
    BY <2>2, <2>3, <2>4 DEF PolicyInv
  <2>6. CacheInv' /\ BatchInv'
    BY <2>3, <2>4 DEF CacheInv, BatchInv
  <2> QED
    BY <1>a, <2>3, <2>5, <2>6, SavedKept
<1>2. CASE Crash
  <2>1. pc' = "setup" /\ saved' = saved
    BY <1>2 DEF Crash, Goto
  <2> QED
    BY <1>a, <2>1, SavedKept
    DEF PolicyInv, CacheInv, BatchInv, Rolling, Preparing
<1>3. CASE BeginEpoch
  <2>1. /\ pc = "epoch" /\ pc' = "fetch" /\ cache' = <<>>
        /\ UNCHANGED <<policy, epoch, pos, total, saved>>
    BY <1>3 DEF BeginEpoch, Goto
  <2>2. /\ ~Rolling /\ ~Learnt /\ LastSeen = pos
        /\ ~Rolling' /\ ~Learnt' /\ LastSeen' = pos'
    BY <2>1 DEF Rolling, Learnt, LastSeen, Preparing
  <2>3. PolicyInv'
    BY <1>a, <2>1, <2>2 DEF PolicyInv
  <2>4. CacheInv' /\ BatchInv'
    BY <2>1 DEF CacheInv, BatchInv
  <2> QED
    BY <1>a, <2>1, <2>3, <2>4, SavedKept
<1>4. CASE NoMoreEpochs
  <2>1. /\ pc = "epoch" /\ pc' = "done"
        /\ UNCHANGED <<policy, epoch, pos, total, saved>>
    BY <1>4 DEF NoMoreEpochs, Goto
  <2>2. /\ ~Rolling /\ ~Learnt /\ LastSeen = pos
        /\ ~Rolling' /\ ~Learnt' /\ LastSeen' = pos'
    BY <2>1 DEF Rolling, Learnt, LastSeen, Preparing
  <2>3. PolicyInv'
    BY <1>a, <2>1, <2>2 DEF PolicyInv
  <2>4. CacheInv' /\ BatchInv'
    BY <2>1, <2>2 DEF CacheInv, BatchInv
  <2> QED
    BY <1>a, <2>1, <2>3, <2>4, SavedKept
<1>5. CASE EndEpoch
  <2>1. /\ pc = "fetch" /\ pc' = "epoch" /\ epoch' = epoch + 1 /\ pos' = 0
        /\ UNCHANGED <<policy, total, saved>>
    BY <1>5 DEF EndEpoch, Goto
  <2>2. /\ ~Rolling /\ ~Learnt /\ LastSeen = pos
        /\ ~Rolling' /\ ~Learnt' /\ LastSeen' = pos'
    BY <2>1 DEF Rolling, Learnt, LastSeen, Preparing
  <2>3. TrainedTo(policy, total, epoch, pos)
    BY <1>a, <2>1, <2>2 DEF PolicyInv
  <2>4. TrainedTo(policy, total, epoch + 1, 0)
    BY <1>a, <2>3, LaterPlace
  <2>5. PolicyInv' /\ CacheInv' /\ BatchInv'
    BY <2>1, <2>2, <2>4 DEF PolicyInv, CacheInv, BatchInv
  <2> QED
    BY <1>a, <2>1, <2>5, SavedKept
<1>6. CASE Fetch
  <2>1. /\ pc = "fetch" /\ pc' = "prepare" /\ goal' = "rollout" /\ pos' = pos + 1
        /\ UNCHANGED <<policy, cache, epoch, total, saved>>
    BY <1>6 DEF Fetch, Prepare, Goto
  <2>2. /\ ~Rolling /\ ~Learnt /\ LastSeen = pos
        /\ Rolling' /\ ~Learnt' /\ LastSeen' = pos
    BY <1>a, <2>1 DEF Rolling, Learnt, LastSeen, Preparing
  <2>3. PolicyInv'
    BY <1>a, <2>1, <2>2 DEF PolicyInv
  <2>4. CacheInv' /\ BatchInv'
    BY <1>a, <2>1, <2>2 DEF CacheInv, BatchInv, Yielded
  <2> QED
    BY <1>a, <2>1, <2>3, <2>4, SavedKept
<1>7. CASE \/ OffloadBeforeRefit \/ WakeWeights \/ TransferWeights
           \/ OffloadAfterRefit \/ WakeCache \/ OffloadForGeneration \/ WakeEngine
  <2>1. /\ Preparing /\ Preparing'
        /\ UNCHANGED <<goal, epoch, total, pos, cache, policy, saved>>
    BY <1>7 DEF OffloadBeforeRefit, WakeWeights, TransferWeights,
       OffloadAfterRefit, WakeCache, OffloadForGeneration, WakeEngine, Moves,
       Goto, Preparing
  <2> QED
    BY <2>1, PreparingKeeps
<1>8. CASE RefitFails
  <2>1. pc' = "failed" /\ saved' = saved
    BY <1>8 DEF RefitFails, Moves, Goto
  <2> QED
    BY <1>a, <2>1, SavedKept
    DEF PolicyInv, CacheInv, BatchInv, Rolling, Preparing
<1>9. CASE Rollouts
  <2>1. /\ pc = "generate" /\ goal = "rollout" /\ pc' = "filter"
        /\ UNCHANGED <<goal, policy, cache, epoch, pos, total, saved>>
    BY <1>9 DEF Rollouts, Goto
  <2>2. /\ Rolling /\ ~Learnt /\ LastSeen = pos - 1
        /\ Rolling' /\ ~Learnt' /\ LastSeen' = pos - 1
    BY <2>1 DEF Rolling, Learnt, LastSeen, Preparing
  <2>3. PolicyInv'
    BY <1>a, <2>1, <2>2 DEF PolicyInv
  <2>4. CacheInv' /\ BatchInv'
    BY <1>a, <2>1, <2>2 DEF CacheInv, BatchInv, Yielded
  <2> QED
    BY <1>a, <2>1, <2>3, <2>4, SavedKept
<1>10. CASE Validate
  <2>1. /\ pc = "generate" /\ goal \in {"validation", "initial"}
        /\ pc' = IF goal = "initial" THEN "epoch" ELSE "save"
        /\ UNCHANGED <<goal, policy, cache, epoch, pos, total, saved>>
    BY <1>a, <1>10 DEF Validate, Moves, Goto, TypeOK, Goals
  <2>2. /\ ~Rolling /\ LastSeen = pos /\ ~Rolling' /\ LastSeen' = pos'
        /\ Learnt <=> goal = "validation"
        /\ Learnt' <=> goal = "validation"
    BY <2>1 DEF Rolling, Learnt, LastSeen, Preparing
  <2>3. PolicyInv'
    BY <1>a, <2>1, <2>2 DEF PolicyInv
  <2>4. CacheInv' /\ BatchInv'
    BY <2>1, <2>2 DEF CacheInv, BatchInv
  <2> QED
    BY <1>a, <2>1, <2>3, <2>4, SavedKept
<1>11. CASE TakeBatch
  <2>1. /\ pc = "filter" /\ pc' = "logprobs"
        /\ batch' = ToSet(OfBatch(NumPrompts))
        /\ UNCHANGED <<policy, epoch, pos, total, saved>>
    BY <1>11 DEF TakeBatch, Filtered, Goto
  <2>2. /\ Rolling /\ ~Learnt /\ LastSeen = pos - 1
        /\ ~Rolling' /\ ~Learnt' /\ LastSeen' = pos
    BY <2>1 DEF Rolling, Learnt, LastSeen, Preparing
  <2>3. PolicyInv'
    <3>1. TrainedTo(policy, total, epoch, pos - 1)
      BY <1>a, <2>1, <2>2 DEF PolicyInv
    <3>2. pos - 1 \in Int /\ pos \in Int /\ pos - 1 <= pos
      BY <1>a
    <3>3. TrainedTo(policy, total, epoch, pos)
      BY <1>a, <3>1, <3>2, LaterPlace
    <3> QED
      BY <2>1, <2>2, <3>3 DEF PolicyInv
  <2>4. CacheInv'
    BY <2>1, <2>2 DEF CacheInv
  <2>5. /\ OfBatch(NumPrompts) \in Seq(Prompt)
        /\ Len(OfBatch(NumPrompts)) = NumPrompts
        /\ \A i \in 1..NumPrompts :
             OfBatch(NumPrompts)[i] = [epoch |-> epoch, batch |-> pos, no |-> i]
    BY <1>a, Constants, BatchPrompts
  <2>6. batch' = {OfBatch(NumPrompts)[i] : i \in 1..NumPrompts}
    BY <2>1, <2>5 DEF ToSet
  <2>7. \A i, j \in 1..NumPrompts :
          OfBatch(NumPrompts)[i] = OfBatch(NumPrompts)[j] => i = j
    BY <2>5
  <2>8. IsFiniteSet(batch') /\ Cardinality(batch') = NumPrompts
    BY <2>5, <2>6, <2>7, DistinctPrompts, Constants
  <2>9. \A p \in batch' : p.epoch = epoch /\ p.batch = pos
    BY <2>5, <2>6
  <2>10. TrainedTo(batch', 1, epoch, pos)
    BY <1>a, <2>8, <2>9, Constants DEF TrainedTo, Yielded
  <2>11. batch' \cap policy = {}
    <3>1. \A p \in policy : Yielded(p, epoch, pos - 1)
      BY <1>a, <2>1, <2>2 DEF PolicyInv, TrainedTo
    <3> QED
      BY <1>a, <2>9, <3>1 DEF Yielded
  <2>12. BatchInv'
    BY <2>1, <2>10, <2>11 DEF BatchInv
  <2> QED
    BY <1>a, <2>1, <2>3, <2>4, <2>12, SavedKept
<1>12. CASE DynamicSampling
  <2>1. PICK n \in 0..BatchSize :
          EnoughPrompts(n) \/ TooFewPrompts(n) \/ SamplingRaises(n)
    BY <1>12 DEF DynamicSampling
  <2> DEFINE s == cache \o OfBatch(n)
  <2>2. n \in Nat
    BY Constants
  <2>3. /\ pc = "filter" /\ UNCHANGED <<policy, epoch, pos, total, saved>>
        /\ cache' = s
    BY <2>1 DEF EnoughPrompts, TooFewPrompts, SamplingRaises, Filtered
  <2>4. /\ \A i \in 1..Len(s) : Yielded(s[i], epoch, pos) /\ s[i] \notin policy
        /\ \A i, j \in 1..Len(s) : s[i] = s[j] => i = j
    <3>1. pc = "filter"
      BY <2>3
    <3> QED
      BY <2>2, <3>1, JoinedDistinct, Zenon
  <2>5. Rolling /\ ~Learnt /\ LastSeen = pos - 1
    BY <2>3 DEF Rolling, Learnt, LastSeen, Preparing
  <2>6. s \in Seq(Prompt) /\ Len(s) = Len(cache) + n /\ Len(s) \in Nat
    <3>1. TypeOK
      BY <1>a
    <3>2. s \in Seq(Prompt) /\ Len(s) = Len(cache) + n
      BY <2>2, <3>1, JoinedPrompts, Zenon
    <3> QED
      BY <3>2
  <2>7. TrainedTo(policy, total, epoch, pos)
    <3>1. TrainedTo(policy, total, epoch, pos - 1)
      BY <1>a, <2>3, <2>5 DEF PolicyInv
    <3>2. pos - 1 \in Int /\ pos \in Int /\ pos - 1 <= pos
      BY <1>a
    <3> QED
      BY <1>a, <3>1, <3>2, LaterPlace
  <2> HIDE DEF s
  <2>8. CASE EnoughPrompts(n)
    <3>1. /\ pc' = "logprobs" /\ NumPrompts <= Len(s)
          /\ batch' = ToSet(SubSeq(s, 1, NumPrompts))
      BY <2>6, <2>8, Constants DEF EnoughPrompts, Filtered, Goto, s
    <3>2. ~Rolling' /\ ~Learnt' /\ LastSeen' = pos
      BY <2>3, <3>1 DEF Rolling, Learnt, LastSeen, Preparing
    <3>3. PolicyInv' /\ CacheInv'
      BY <2>3, <2>7, <3>1, <3>2 DEF PolicyInv, CacheInv
    <3>4. batch' = {s[i] : i \in 1..NumPrompts}
      BY <2>6, <3>1, FirstPrompts, Constants
    <3>5. IsFiniteSet(batch') /\ Cardinality(batch') = NumPrompts
      BY <2>4, <2>6, <3>1, <3>4, DistinctPrompts, Constants
    <3>6. \A p \in batch' : Yielded(p, epoch, pos) /\ p \notin policy
      BY <2>4, <2>6, <3>1, <3>4, Constants
    <3>7. TrainedTo(batch', 1, epoch, pos)
      BY <3>5, <3>6, Constants DEF TrainedTo
    <3>8. BatchInv'
      BY <2>3, <3>1, <3>6, <3>7 DEF BatchInv
    <3> QED
      BY <1>a, <2>3, <3>3, <3>8, SavedKept
  <2>9. CASE TooFewPrompts(n)
    <3>1. pc' = "fetch"
      BY <2>9 DEF TooFewPrompts, Filtered, Goto
    <3>2. ~Rolling' /\ ~Learnt' /\ LastSeen' = pos
      BY <2>3, <3>1 DEF Rolling, Learnt, LastSeen, Preparing
    <3>3. PolicyInv' /\ BatchInv'
      BY <2>3, <2>7, <3>1, <3>2 DEF PolicyInv, BatchInv
    <3>4. CacheInv'
      BY <2>3, <2>4, <3>2 DEF CacheInv
    <3> QED
      BY <1>a, <2>3, <3>3, <3>4, SavedKept
  <2>10. CASE SamplingRaises(n)
    <3>1. pc' = "failed"
      BY <2>10 DEF SamplingRaises, Filtered, Goto
    <3> QED
      BY <1>a, <2>3, <3>1, SavedKept
      DEF PolicyInv, CacheInv, BatchInv, Rolling, Preparing
  <2> QED
    BY <2>1, <2>8, <2>9, <2>10
<1>13. CASE Logprobs
  <2>1. /\ pc = "logprobs" /\ pc' = "train"
        /\ UNCHANGED <<policy, batch, epoch, pos, total, saved>>
    BY <1>13 DEF Logprobs, Moves, Goto
  <2>2. /\ ~Rolling /\ ~Learnt /\ LastSeen = pos
        /\ ~Rolling' /\ ~Learnt' /\ LastSeen' = pos
    BY <2>1 DEF Rolling, Learnt, LastSeen, Preparing
  <2>3. PolicyInv' /\ CacheInv' /\ BatchInv'
    BY <1>a, <2>1, <2>2 DEF PolicyInv, CacheInv, BatchInv
  <2> QED
    BY <1>a, <2>1, <2>3, SavedKept
<1>14. CASE Train
  <2>1. /\ pc = "train" /\ policy' = policy \cup batch
        /\ \/ pc' = "prepare" /\ goal' = "validation"
           \/ pc' = "save"
        /\ UNCHANGED <<epoch, pos, total, saved>>
    BY <1>14 DEF Train, Trained, Prepare, Goto
  <2>2. /\ ~Rolling /\ ~Learnt /\ LastSeen = pos
        /\ ~Rolling' /\ Learnt' /\ LastSeen' = pos
    BY <2>1 DEF Rolling, Learnt, LastSeen, Preparing
  <2>3. TrainedTo(policy, total, epoch, pos)
    BY <1>a, <2>1, <2>2 DEF PolicyInv
  <2>4. TrainedTo(batch, 1, epoch, pos) /\ batch \cap policy = {}
    BY <1>a, <2>1 DEF BatchInv
  <2>5. TrainedTo(policy \cup batch, total + 1, epoch, pos)
    BY <1>a, <2>3, <2>4, OneMoreStep
  <2>6. PolicyInv' /\ CacheInv' /\ BatchInv'
    BY <2>1, <2>2, <2>5 DEF PolicyInv, CacheInv, BatchInv
  <2> QED
    BY <1>a, <2>1, <2>6, SavedKept
<1>15. CASE \E early \in BOOLEAN : Save(early) \/ SkipSave(early)
  <2>1. PICK early \in BOOLEAN : Save(early) \/ SkipSave(early)
    BY <1>15
  <2>2. /\ pc = "save" /\ pc' \in {"fetch", "done"} /\ cache' = <<>>
        /\ total' = total + 1
        /\ UNCHANGED <<policy, epoch, pos>>
    BY <2>1 DEF Save, SkipSave, EndStep, Goto
  <2>3. /\ ~Rolling /\ Learnt /\ LastSeen = pos
        /\ ~Rolling' /\ ~Learnt' /\ LastSeen' = pos
    BY <2>2 DEF Rolling, Learnt, LastSeen, Preparing
  <2>4. TrainedTo(policy, total + 1, epoch, pos)
    BY <1>a, <2>2, <2>3 DEF PolicyInv
  <2>5. PolicyInv' /\ CacheInv' /\ BatchInv'
    BY <2>2, <2>3, <2>4 DEF PolicyInv, CacheInv, BatchInv
  <2>6. SavedInv'
    <3>1. CASE Save(early)
      <4>1. saved' = {[epoch |-> epoch, step |-> step + 1, total |-> total + 1,
                       pos |-> pos, policy |-> policy]}
        BY <3>1 DEF Save
      <4> QED
        BY <2>4, <4>1 DEF SavedInv
    <3>2. CASE SkipSave(early)
      BY <1>a, <3>2, SavedKept DEF SkipSave
    <3> QED
      BY <2>1, <3>1, <3>2
  <2> QED
    BY <2>5, <2>6
<1>16. CASE UNCHANGED vars
  BY <1>a, <1>16
  DEF vars, PolicyInv, CacheInv, BatchInv, SavedInv, TrainedTo, Yielded,
      LastSeen, Rolling, Learnt, Preparing
<1> QED
  BY <1>1, <1>2, <1>3, <1>4, <1>5, <1>6, <1>7, <1>8, <1>9, <1>10, <1>11, <1>12,
     <1>13, <1>14, <1>15, <1>16 DEF Next

\* No prompt is trained on twice, and each step trains on num_prompts_per_step
\* of them, whatever the cache of dynamic sampling carries over and wherever
\* runs are killed and resumed.
THEOREM EachPromptOnce == Spec => []TrainedOnce
<1>1. Init => TrainInv
  <2> SUFFICES ASSUME Init
               PROVE  TrainInv
    OBVIOUS
  <2>1. TypeInv
    BY TypeInit
  <2> QED
    BY <2>1 DEF Init, TrainInv, PolicyInv, CacheInv, BatchInv, SavedInv,
                Rolling, Preparing
<1>2. TrainInv => TrainedOnce
  <2> SUFFICES ASSUME TrainInv
               PROVE  TrainedOnce
    OBVIOUS
  <2>1. pc = "train" => batch \cap policy = {} /\ Cardinality(batch) = NumPrompts
    BY Constants DEF TrainInv, BatchInv, TrainedTo
  <2>2. pc = "fetch" => Cardinality(policy) = NumPrompts * total
    BY DEF TrainInv, PolicyInv, TrainedTo, Learnt, Preparing
  <2> QED
    BY <2>1, <2>2 DEF TrainedOnce
<1> QED
  BY <1>1, <1>2, TrainStep, PTL DEF Spec

-----------------------------------------------------------------------------
(* Without dynamic sampling: whole batches.                                *)

\* All prompts of the epochs before e, and of the first b batches of e.
WholeBatches(e, b) ==
  {[epoch |-> d, batch |-> c, no |-> n] :
     d \in 0..e - 1, c \in 1..EpochBatches, n \in 1..NumPrompts}
  \cup {[epoch |-> e, batch |-> c, no |-> n] : c \in 1..b, n \in 1..NumPrompts}

OneBatch(e, b) == {[epoch |-> e, batch |-> b, no |-> n] : n \in 1..NumPrompts}

\* The batch at pos was fetched and is not in the weights yet.
Untrained == Rolling \/ pc \in {"logprobs", "train"}

LastTrained == IF Untrained THEN pos - 1 ELSE pos

WholeInv ==
  ~dynamic =>
    /\ pc \notin {"setup", "failed"} => policy = WholeBatches(epoch, LastTrained)
    /\ pc \in {"logprobs", "train"} => batch = OneBatch(epoch, pos)
    /\ \A c \in saved : c.policy = WholeBatches(c.epoch, c.pos)

\* Before the first batch there is none.
LEMMA NoBatches == WholeBatches(0, 0) = {}
BY DEF WholeBatches

\* The batches up to one are those before it, and it.
LEMMA OneBatchMore ==
  ASSUME NEW e \in Nat, NEW b \in Nat, b > 0
  PROVE  WholeBatches(e, b - 1) \cup OneBatch(e, b) = WholeBatches(e, b)
<1>1. 1..b = (1..(b - 1)) \cup {b}
  OBVIOUS
<1> QED
  BY <1>1 DEF WholeBatches, OneBatch

\* The end of an epoch is the start of the next.
LEMMA OneEpochMore ==
  ASSUME NEW e \in Nat
  PROVE  WholeBatches(e, EpochBatches) = WholeBatches(e + 1, 0)
<1>1. 0..(e + 1 - 1) = (0..(e - 1)) \cup {e} /\ 1..0 = {}
  OBVIOUS
<1> QED
  BY <1>1 DEF WholeBatches

\* Steps that move only memory, engine and flag.
LEMMA WholeKept ==
  ASSUME WholeInv, Untrained <=> Untrained',
         pc \in {"setup", "failed"} => pc' \in {"setup", "failed"},
         pc' \in {"logprobs", "train"} => pc \in {"logprobs", "train"},
         UNCHANGED <<dynamic, epoch, pos, batch, policy, saved>>
  PROVE  WholeInv'
BY DEF WholeInv, LastTrained, WholeBatches, OneBatch

\* Every step keeps the batches whole.
LEMMA WholeStep == TypeInv /\ WholeInv /\ [Next]_vars => WholeInv'
<1> SUFFICES ASSUME TypeInv, WholeInv, [Next]_vars
             PROVE  WholeInv'
  OBVIOUS
<1>a. /\ epoch \in Nat /\ pos \in Nat
      /\ dynamic' = dynamic
  BY Constants
  DEF TypeInv, TypeOK, Next, vars, Setup, StartRun, Crash, BeginEpoch,
      NoMoreEpochs, Fetch, EndEpoch, OffloadBeforeRefit, WakeWeights,
      TransferWeights, RefitFails, OffloadAfterRefit, WakeCache,
      OffloadForGeneration, WakeEngine, Moves, Rollouts, Validate, TakeBatch,
      DynamicSampling, EnoughPrompts, TooFewPrompts, SamplingRaises, Filtered,
      Logprobs, Train, Trained, Save, SkipSave
<1> SUFFICES ASSUME ~dynamic
             PROVE  WholeInv'
  BY <1>a DEF WholeInv
<1>b. /\ pc \notin {"setup", "failed"} =>
           policy = WholeBatches(epoch, LastTrained)
      /\ pc \in {"logprobs", "train"} => batch = OneBatch(epoch, pos)
      /\ \A c \in saved : c.policy = WholeBatches(c.epoch, c.pos)
  BY DEF WholeInv
<1>1. CASE Setup
  <2>1. PICK from \in (IF saved = {} THEN {Fresh} ELSE saved) : StartRun(from)
    BY <1>1 DEF Setup
  <2>2. from.policy = WholeBatches(from.epoch, from.pos)
    BY <1>b, <2>1, NoBatches DEF Fresh
  <2>3. /\ policy' = from.policy /\ epoch' = from.epoch /\ pos' = from.pos
        /\ \/ pc' = "prepare" /\ goal' = "initial"
           \/ pc' = "epoch"
        /\ saved' = saved
    BY <1>1, <2>1 DEF Setup, StartRun, Prepare, Goto
  <2>4. LastTrained' = pos'
    BY <2>3 DEF LastTrained, Untrained, Rolling, Preparing
  <2> QED
    BY <1>b, <2>2, <2>3, <2>4 DEF WholeInv
<1>2. CASE Crash \/ RefitFails
  <2>1. pc' \in {"setup", "failed"} /\ saved' = saved
    BY <1>2 DEF Crash, RefitFails, Moves, Goto
  <2> QED
    BY <1>b, <2>1 DEF WholeInv
<1>3. CASE BeginEpoch \/ NoMoreEpochs
  <2>1. /\ pc = "epoch" /\ pc' \in {"fetch", "done"}
        /\ UNCHANGED <<dynamic, epoch, pos, batch, policy, saved>>
    BY <1>3 DEF BeginEpoch, NoMoreEpochs, Goto
  <2> QED
    BY <2>1, WholeKept DEF Untrained, Rolling, Preparing
<1>4. CASE EndEpoch
  <2>1. /\ pc = "fetch" /\ pc' = "epoch" /\ pos = EpochBatches
        /\ epoch' = epoch + 1 /\ pos' = 0
        /\ UNCHANGED <<policy, saved>>
    BY <1>4 DEF EndEpoch, Goto
  <2>2. LastTrained = pos /\ LastTrained' = 0
    BY <2>1 DEF LastTrained, Untrained, Rolling, Preparing
  <2>3. policy' = WholeBatches(epoch', LastTrained')
    BY <1>a, <1>b, <2>1, <2>2, OneEpochMore
  <2> QED
    BY <1>b, <2>1, <2>3 DEF WholeInv
<1>5. CASE Fetch
  <2>1. /\ pc = "fetch" /\ pc' = "prepare" /\ goal' = "rollout" /\ pos' = pos + 1
        /\ UNCHANGED <<policy, epoch, saved>>
    BY <1>5 DEF Fetch, Prepare, Goto
  <2>2. LastTrained = pos /\ LastTrained' = pos
    BY <1>a, <2>1 DEF LastTrained, Untrained, Rolling, Preparing
  <2> QED
    BY <1>b, <2>1, <2>2 DEF WholeInv
<1>6. CASE \/ OffloadBeforeRefit \/ WakeWeights \/ TransferWeights
           \/ OffloadAfterRefit \/ WakeCache \/ OffloadForGeneration \/ WakeEngine
  <2>1. /\ Preparing /\ Preparing'
        /\ UNCHANGED <<dynamic, goal, epoch, pos, batch, policy, saved>>
    BY <1>6 DEF OffloadBeforeRefit, WakeWeights, TransferWeights,
       OffloadAfterRefit, WakeCache, OffloadForGeneration, WakeEngine, Moves,
       Goto, Preparing
  <2> QED
    BY <2>1, WholeKept DEF Untrained, Rolling, Preparing
<1>7. CASE Rollouts
  <2>1. /\ pc = "generate" /\ goal = "rollout" /\ pc' = "filter"
        /\ UNCHANGED <<dynamic, goal, epoch, pos, batch, policy, saved>>
    BY <1>7 DEF Rollouts, Goto
  <2> QED
    BY <2>1, WholeKept DEF Untrained, Rolling, Preparing
<1>8. CASE Validate
  <2>1. /\ pc = "generate" /\ goal # "rollout" /\ pc' \in {"epoch", "save"}
        /\ UNCHANGED <<dynamic, goal, epoch, pos, batch, policy, saved>>
    BY <1>8 DEF Validate, Moves, Goto
  <2> QED
    BY <2>1, WholeKept DEF Untrained, Rolling, Preparing
<1>9. CASE TakeBatch
  <2>1. /\ pc = "filter" /\ pc' = "logprobs"
        /\ batch' = ToSet(OfBatch(NumPrompts))
        /\ UNCHANGED <<policy, epoch, pos, saved>>
    BY <1>9 DEF TakeBatch, Filtered, Goto
  <2>2. LastTrained = pos - 1 /\ LastTrained' = pos - 1
    BY <2>1 DEF LastTrained, Untrained, Rolling, Preparing
  <2>3. batch' = OneBatch(epoch, pos)
    <3>1. /\ OfBatch(NumPrompts) \in Seq(Prompt)
          /\ Len(OfBatch(NumPrompts)) = NumPrompts
          /\ \A i \in 1..NumPrompts :
               OfBatch(NumPrompts)[i] = [epoch |-> epoch, batch |-> pos, no |-> i]
      BY Constants, BatchPrompts DEF TypeInv
    <3>2. DOMAIN OfBatch(NumPrompts) = 1..NumPrompts
      BY <3>1
    <3> QED
      BY <2>1, <3>1, <3>2 DEF ToSet, OneBatch
  <2> QED
    BY <1>b, <2>1, <2>2, <2>3 DEF WholeInv
<1>10. CASE DynamicSampling
  BY <1>10 DEF DynamicSampling, EnoughPrompts, TooFewPrompts, SamplingRaises,
               Filtered
<1>11. CASE Logprobs
  <2>1. /\ pc = "logprobs" /\ pc' = "train"
        /\ UNCHANGED <<dynamic, goal, epoch, pos, batch, policy, saved>>
    BY <1>11 DEF Logprobs, Moves, Goto
  <2> QED
    BY <2>1, WholeKept DEF Untrained, Rolling, Preparing
<1>12. CASE Train
  <2>1. /\ pc = "train" /\ policy' = policy \cup batch
        /\ \/ pc' = "prepare" /\ goal' = "validation"
           \/ pc' = "save"
        /\ UNCHANGED <<epoch, pos, saved>>
    BY <1>12 DEF Train, Trained, Prepare, Goto
  <2>2. LastTrained = pos - 1 /\ LastTrained' = pos
    BY <2>1 DEF LastTrained, Untrained, Rolling, Preparing
  <2>3. pos > 0
    BY <1>a, <2>1, Constants DEF TypeInv, TypeOK, CountersInv, InStep
  <2>4. policy' = WholeBatches(epoch, pos)
    BY <1>a, <1>b, <2>1, <2>2, <2>3, OneBatchMore
  <2> QED
    BY <1>b, <2>1, <2>2, <2>4 DEF WholeInv
<1>13. CASE \E early \in BOOLEAN : Save(early) \/ SkipSave(early)
  <2>1. PICK early \in BOOLEAN : Save(early) \/ SkipSave(early)
    BY <1>13
  <2>2. /\ pc = "save" /\ pc' \in {"fetch", "done"}
        /\ UNCHANGED <<policy, epoch, pos>>
    BY <2>1 DEF Save, SkipSave, EndStep, Goto
  <2>3. LastTrained = pos /\ LastTrained' = pos
    BY <2>2 DEF LastTrained, Untrained, Rolling, Preparing
  <2>4. policy = WholeBatches(epoch, pos)
    BY <1>b, <2>2, <2>3
  <2>5. \A c \in saved' : c.policy = WholeBatches(c.epoch, c.pos)
    <3>1. CASE Save(early)
      <4>1. saved' = {[epoch |-> epoch, step |-> step + 1, total |-> total + 1,
                       pos |-> pos, policy |-> policy]}
        BY <3>1 DEF Save
      <4> QED
        BY <2>4, <4>1
    <3>2. CASE SkipSave(early)
      BY <1>b, <3>2 DEF SkipSave
    <3> QED
      BY <2>1, <3>1, <3>2
  <2> QED
    BY <2>2, <2>3, <2>4, <2>5 DEF WholeInv
<1>14. CASE UNCHANGED vars
  <2>1. UNCHANGED <<dynamic, pc, goal, epoch, pos, batch, policy, saved>>
    BY <1>14 DEF vars
  <2> QED
    BY <2>1, WholeKept DEF Untrained, Rolling, Preparing
<1> QED
  BY <1>1, <1>2, <1>3, <1>4, <1>5, <1>6, <1>7, <1>8, <1>9, <1>10, <1>11, <1>12,
     <1>13, <1>14 DEF Next

\* Without dynamic sampling the weights hold all that the dataloader yielded
\* before the batch it is at, in every epoch and after every resume.
THEOREM NothingIsSkipped == Spec => []NothingSkipped
<1>1. Init => TypeInv /\ WholeInv
  BY TypeInit DEF Init, WholeInv
<1>2. TypeInv /\ WholeInv /\ [Next]_vars => (TypeInv /\ WholeInv)'
  BY TypeStep, WholeStep
<1>3. WholeInv => NothingSkipped
  BY DEF WholeInv, NothingSkipped, LastTrained, Untrained, Rolling, Preparing,
         WholeBatches
<1> QED
  BY <1>1, <1>2, <1>3, PTL DEF Spec

-----------------------------------------------------------------------------
(* The end of training.                                                    *)

SavedNow == \E c \in saved : c.policy = policy

\* Without dynamic sampling every batch is a step of its epoch.
StepInv ==
  ~dynamic =>
    /\ pc \notin {"setup", "failed", "done"} =>
         step = IF InStep THEN pos - 1 ELSE pos
    /\ \A c \in saved : c.step = c.pos

\* No step is under way.
Between == pc \in {"epoch", "fetch"} \/ (Preparing /\ goal = "initial")

\* No step follows.
AtEnd ==
  /\ total > 0
  /\ \/ total >= maxSteps
     \/ /\ ~dynamic
        /\ \/ epoch = MaxEpochs
           \/ epoch + 1 = MaxEpochs /\ pos = EpochBatches

EndInv ==
  SavePeriod > 0 =>
    /\ Between /\ AtEnd => SavedNow
    /\ pc = "done" /\ total > 0 /\ ~(dynamic /\ epoch = MaxEpochs) => SavedNow

\* Every step keeps the counters in step.
LEMMA StepInvStep == TypeInv /\ StepInv /\ [Next]_vars => StepInv'
<1> SUFFICES ASSUME TypeInv, StepInv, [Next]_vars
             PROVE  StepInv'
  OBVIOUS
<1> USE Constants DEF TypeInv, TypeOK, StepInv, InStep, Preparing
<1>1. CASE Setup
  <2>1. PICK from \in (IF saved = {} THEN {Fresh} ELSE saved) : StartRun(from)
    BY <1>1 DEF Setup
  <2>2. ~dynamic => from.step = from.pos
    BY <2>1 DEF Fresh
  <2> QED
    BY <1>1, <2>1, <2>2 DEF Setup, StartRun, Prepare, Goto
<1>2. CASE Crash \/ RefitFails
  BY <1>2 DEF Crash, RefitFails, Moves, Goto
<1>3. CASE BeginEpoch \/ NoMoreEpochs \/ EndEpoch \/ Fetch
  BY <1>3 DEF BeginEpoch, NoMoreEpochs, EndEpoch, Fetch, Prepare, Goto
<1>4. CASE \/ OffloadBeforeRefit \/ WakeWeights \/ TransferWeights
           \/ OffloadAfterRefit \/ WakeCache \/ OffloadForGeneration \/ WakeEngine
  BY <1>4 DEF OffloadBeforeRefit, WakeWeights, TransferWeights,
     OffloadAfterRefit, WakeCache, OffloadForGeneration, WakeEngine, Moves, Goto
<1>5. CASE Rollouts \/ Validate
  BY <1>5 DEF Rollouts, Validate, Moves, Goto, Goals
<1>6. CASE TakeBatch \/ DynamicSampling
  BY <1>6 DEF TakeBatch, DynamicSampling, EnoughPrompts, TooFewPrompts,
              SamplingRaises, Filtered, Goto
<1>7. CASE Logprobs \/ Train
  BY <1>7 DEF Logprobs, Train, Trained, Prepare, Moves, Goto
<1>8. CASE \E early \in BOOLEAN : Save(early) \/ SkipSave(early)
  <2>1. PICK early \in BOOLEAN : Save(early) \/ SkipSave(early)
    BY <1>8
  <2>2. CASE Save(early)
    <3>1. saved' = {[epoch |-> epoch, step |-> step + 1, total |-> total + 1,
                     pos |-> pos, policy |-> policy]}
      BY <2>2 DEF Save
    <3>2. \A c \in saved' : c.step = step + 1 /\ c.pos = pos
      BY <3>1
    <3>3. /\ pc = "save" /\ pc' \in {"fetch", "done"} /\ step' = step + 1
          /\ UNCHANGED <<dynamic, pos>>
      BY <2>2 DEF Save, EndStep, Goto
    <3> QED
      BY <3>2, <3>3
  <2>3. CASE SkipSave(early)
    BY <2>3 DEF SkipSave, EndStep, Goto
  <2> QED
    BY <2>1, <2>2, <2>3
<1>9. CASE UNCHANGED vars
  BY <1>9 DEF vars
<1> QED
  BY <1>1, <1>2, <1>3, <1>4, <1>5, <1>6, <1>7, <1>8, <1>9 DEF Next

\* Every step keeps what holds where training ends.
LEMMA EndStepInv ==
  TypeInv /\ StepInv /\ EndInv /\ [Next]_vars => EndInv'
<1> SUFFICES ASSUME TypeInv, StepInv, EndInv, [Next]_vars, SavePeriod > 0
             PROVE  EndInv'
  BY DEF EndInv
<1> USE Constants DEF TypeInv, TypeOK, EndInv, Between, AtEnd, SavedNow, Preparing
<1>1. CASE Setup
  <2>1. PICK from \in (IF saved = {} THEN {Fresh} ELSE saved) : StartRun(from)
    BY <1>1 DEF Setup
  <2>2. /\ policy' = from.policy /\ total' = from.total
        /\ pc' \in {"prepare", "epoch"} /\ saved' = saved
    BY <1>1, <2>1 DEF Setup, StartRun, Prepare, Goto
  <2>3. CASE from \in saved
    BY <2>2, <2>3
  <2>4. CASE from = Fresh
    BY <2>2, <2>4 DEF Fresh
  <2> QED
    BY <2>1, <2>3, <2>4
<1>2. CASE Crash \/ RefitFails
  BY <1>2 DEF Crash, RefitFails, Moves, Goto
<1>3. CASE BeginEpoch \/ NoMoreEpochs
  BY <1>3 DEF BeginEpoch, NoMoreEpochs, Goto
<1>4. CASE EndEpoch
  <2>1. /\ pc = "fetch" /\ pos = EpochBatches /\ total < maxSteps
        /\ pc' = "epoch" /\ epoch' = epoch + 1 /\ pos' = 0
        /\ UNCHANGED <<dynamic, maxSteps, total, policy, saved>>
    BY <1>4 DEF EndEpoch, Goto, CountersInv
  <2> QED
    BY <2>1
<1>5. CASE Fetch
  BY <1>5 DEF Fetch, Prepare, Goto
<1>6. CASE \/ OffloadBeforeRefit \/ WakeWeights \/ TransferWeights
           \/ OffloadAfterRefit \/ WakeCache \/ OffloadForGeneration \/ WakeEngine
  <2>1. /\ Preparing /\ Preparing'
        /\ UNCHANGED <<dynamic, maxSteps, goal, epoch, total, pos, policy, saved>>
    BY <1>6 DEF OffloadBeforeRefit, WakeWeights, TransferWeights,
       OffloadAfterRefit, WakeCache, OffloadForGeneration, WakeEngine, Moves,
       Goto
  <2> QED
    BY <2>1
<1>7. CASE Rollouts \/ Validate
  BY <1>7 DEF Rollouts, Validate, Moves, Goto
<1>8. CASE TakeBatch \/ DynamicSampling
  <2>1. /\ pc = "filter" /\ pc' \in {"logprobs", "fetch", "failed"}
        /\ pc' = "fetch" => dynamic /\ total < maxSteps
        /\ UNCHANGED <<dynamic, maxSteps, epoch, total, pos, policy, saved>>
    BY <1>8 DEF TakeBatch, DynamicSampling, EnoughPrompts, TooFewPrompts,
                SamplingRaises, Filtered, Goto, CountersInv, InStep
  <2> QED
    BY <2>1
<1>9. CASE Logprobs \/ Train
  BY <1>9 DEF Logprobs, Train, Trained, Prepare, Moves, Goto
<1>10. CASE \E early \in BOOLEAN : Save(early) \/ SkipSave(early)
  <2>1. PICK early \in BOOLEAN : Save(early) \/ SkipSave(early)
    BY <1>10
  <2>2. CASE Save(early)
    <3>1. saved' = {[epoch |-> epoch, step |-> step + 1, total |-> total + 1,
                     pos |-> pos, policy |-> policy]}
          /\ policy' = policy
      BY <2>2 DEF Save
    <3>2. SavedNow'
      BY <3>1
    <3> QED
      BY <3>2
  <2>3. CASE SkipSave(early)
    <3>1. /\ pc = "save" /\ total + 1 < maxSteps /\ ~early
          /\ ~(epoch + 1 = MaxEpochs /\ step + 1 = EpochBatches)
      BY <2>3 DEF SkipSave, Saves, IsLastStep
    <3>2. /\ pc' = "fetch" /\ total' = total + 1
          /\ UNCHANGED <<dynamic, maxSteps, epoch, pos>>
      BY <2>3, <3>1 DEF SkipSave, EndStep, Goto
    <3>3. epoch < MaxEpochs /\ (~dynamic => step = pos - 1)
      BY <3>1 DEF StepInv, CountersInv, InStep
    <3> QED
      BY <3>1, <3>2, <3>3
  <2> QED
    BY <2>1, <2>2, <2>3
<1>11. CASE UNCHANGED vars
  BY <1>11 DEF vars
<1> QED
  BY <1>1, <1>2, <1>3, <1>4, <1>5, <1>6, <1>7, <1>8, <1>9, <1>10, <1>11 DEF Next

\* When training ends, complete or cut off by a deadline, its last weights are
\* in the latest checkpoint, except with dynamic sampling that runs out of
\* epochs.
THEOREM FinalWeightsAreSaved == Spec => []FinalWeightsSaved
<1>1. Init => TypeInv /\ StepInv /\ EndInv
  BY TypeInit
  DEF Init, StepInv, EndInv, Between, Preparing
<1>2. TypeInv /\ StepInv /\ EndInv /\ [Next]_vars
        => (TypeInv /\ StepInv /\ EndInv)'
  BY TypeStep, StepInvStep, EndStepInv
<1>3. EndInv => FinalWeightsSaved
  BY DEF EndInv, FinalWeightsSaved, SavedNow
<1> QED
  BY <1>1, <1>2, <1>3, PTL DEF Spec

=============================================================================
