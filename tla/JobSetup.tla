------------------------------ MODULE JobSetup ------------------------------
(***************************************************************************)
(* How a job comes up: the setup functions of nemo_rl/algorithms and       *)
(* nemo_rl/evals check their configuration and divide the GPUs between the *)
(* clusters of training, inference and the reward model; each             *)
(* RayVirtualCluster reserves placement groups of Ray when the first group *)
(* of workers asks for them; each RayWorkerGroup places its workers on     *)
(* their bundles, and the workers find each other through a master.        *)
(*                                                                         *)
(* A GPU is a node and its number there. A setting of the configuration    *)
(* that only decides whether something refuses it is a name in             *)
(* job.settings. The teacher has the parallelism of the student; the       *)
(* reward model has none.                                                  *)
(***************************************************************************)
EXTENDS Integers, Sequences, SequencesExt, FiniteSetsExt

CONSTANTS Jobs,        \* configurations, and the nodes that are up at first
          MaxRetries,  \* NRL_VIRTUAL_CLUSTER_MAX_RETRIES
          MaxClashes   \* bound: ports taken between being found and being bound

ASSUME JobsAssumption ==
  \A j \in Jobs :
    /\ j.nodes \in Nat \ {0} /\ j.gpus \in Nat \ {0} /\ j.up \in 0..j.nodes
    /\ j.infer.nodes \in Nat /\ j.infer.gpus \in Nat
    /\ j.reward.nodes \in Nat /\ j.reward.gpus \in Nat
    /\ j.mp \in Nat \ {0} /\ j.pp \in Nat \ {0} /\ j.cp \in Nat \ {0}
    /\ j.tp \in Nat \ {0}
    /\ j.colocated \in BOOLEAN /\ j.backend \in {"vllm", "sglang", "megatron"}

VARIABLES job,
          nodesUp,   \* the nodes of Ray's cluster
          clusters,  \* the RayVirtualClusters: what was asked of Ray, and the
                     \* GPU of every bundle of the placement groups so far
          groups,    \* the worker groups: how far they are, why they failed,
                     \* and the workers: node index and bundles, one per GPU
          main,      \* the process that runs setup
          why,       \* what made it fail
          pretrained, \* Megatron's conversion of the model of a group, on disk
          clashes
setupVars == <<job, nodesUp, clusters, groups, main, why, pretrained, clashes>>

ClusterNames == {"train", "inference", "reward"}
GroupNames == {"teacher", "engine", "policy", "reward"}
Has(setting) == setting \in job.settings
Generates == job.program \in {"grpo", "distillation"}
DTensor == job.worker \in {"dtensor", "dtensor_v2"}

-----------------------------------------------------------------------------
(* The division of the GPUs *)

HasReward == job.reward.nodes > 0
PolicyNodes == IF job.nodes = 1 THEN 1 ELSE job.nodes - job.reward.nodes
RewardGpusHere == IF job.nodes = 1 THEN job.reward.gpus ELSE 0

TrainShape ==
  CASE ~ Generates \/ job.colocated ->
         [nodes |-> PolicyNodes, gpus |-> job.gpus - RewardGpusHere]
    [] Generates /\ ~ job.colocated /\ PolicyNodes = 1 ->
         [nodes |-> 1, gpus |-> job.gpus - job.infer.gpus - RewardGpusHere]
    [] OTHER ->
         [nodes |-> PolicyNodes - job.infer.nodes, gpus |-> job.gpus]

InferenceShape ==
  [nodes |-> IF PolicyNodes = 1 THEN 1 ELSE job.infer.nodes,
   gpus  |-> job.infer.gpus]

Shape(c) == CASE c = "train"     -> TrainShape
              [] c = "inference" -> InferenceShape
              [] c = "reward"    -> job.reward

WorldSize(c) == Max({0, Shape(c).nodes}) * Shape(c).gpus

\* max_colocated_worker_groups: each worker takes the inverse of a GPU.
Colocatable(c) ==
  CASE c # "reward" /\ job.program = "grpo" ->
         IF job.colocated /\ job.backend # "megatron" THEN 2 ELSE 1
    [] c # "reward" /\ job.program = "distillation" ->
         IF job.colocated /\ job.backend = "megatron" THEN 1 ELSE 3
    [] OTHER -> 1

\* What setup asserts where inference has GPUs of its own.
SeparateRefused ==
  /\ Generates /\ ~ job.colocated
  /\ \/ job.backend = "megatron"
     \/ PolicyNodes = 1 /\ (job.infer.gpus <= 0 \/ job.infer.nodes \notin {0, 1})
     \/ PolicyNodes > 1 /\ (job.infer.nodes <= 0 \/ job.infer.gpus # job.gpus)

\* grpo.setup, before any worker; with vLLM, what FP8 excludes.
GrpoRefused ==
  \/ Has("batch_multiplier") /\ ~ Has("dynamic_sampling")
  \/ Has("validation") /\ ~ Has("validation_data")
  \/ PolicyNodes <= 0
  \/ /\ job.backend = "vllm"
     /\ \/ Has("fp8") /\ ~ Has("importance_sampling")
        \/ Has("kv_fp8") /\ (\/ ~ Has("fp8") \/ DTensor
                             \/ Has("async_rollouts") \/ job.pp > 1)

DistillationRefused ==
  \/ DTensor /\ Has("sequence_packing") /\ Has("sequence_parallel")
  \/ Has("validation") /\ ~ Has("validation_data")

DpoRefused == Has("dynamic_batching") \/ Has("sequence_packing")

EvalRefused ==
  \/ job.backend # "vllm"
  \/ Has("unknown_metric")
  \/ Has("several_tests") /\ Has("greedy")
  \/ Has("k_beyond_tests")

\* What the setup function of the program refuses before it asks for GPUs.
SetupRefuses ==
  \/ SeparateRefused
  \/ TrainShape.gpus <= 0
  \/ job.program = "grpo" /\ GrpoRefused
  \/ job.program = "distillation" /\ DistillationRefused
  \/ job.program = "dpo" /\ DpoRefused
  \/ job.program = "eval" /\ EvalRefused

-----------------------------------------------------------------------------
(* Placement groups *)

Nodes == 1..nodesUp
Reserved == UNION {ToSet(pg) : pg \in UNION {ToSet(clusters[c].pgs) : c \in ClusterNames}}
FreeGpus == (Nodes \X (1..job.gpus)) \ Reserved
On(node, gpus) == Cardinality({gpu \in gpus : gpu[1] = node})

\* Ray's strategies: PACK leaves at most one node partly used, SPREAD loads
\* the nodes as evenly as their free GPUs allow.
Fits(gpus, free, strategy) ==
  IF strategy = "PACK"
  THEN Cardinality({n \in Nodes : On(n, gpus) \notin {0, On(n, free)}}) <= 1
  ELSE \A n, m \in Nodes :
         On(n, gpus) > On(m, gpus) + 1 => On(m, gpus) = On(m, free)

\* GPUs before others of their node, nodes in order.
Before(gpu, other) ==
  gpu[1] < other[1] \/ (gpu[1] = other[1] /\ gpu[2] < other[2])

InOrder(gpus) ==
  [i \in 1..Cardinality(gpus) |->
     CHOOSE gpu \in gpus : Cardinality({other \in gpus : Before(other, gpu)}) = i - 1]

\* The GPUs that the `count` bundles of a placement group may get. In the group
\* of one node they are numbered as the bundles are: no order is asked for there.
Placements(count, cluster) ==
  LET free == FreeGpus
      sets == {s \in kSubset(count, free) : Fits(s, free, cluster.strategy)}
  IN  IF cluster.unified THEN UNION {SetToSeqs(s) : s \in sets}
                         ELSE {InOrder(s) : s \in sets}

NoCluster == [asked |-> FALSE, unified |-> FALSE, strategy |-> "SPREAD",
              tries |-> 0, pgs |-> <<>>]

\* The bundles of each placement group: one for all nodes, or one per node.
Bundles(c) == IF clusters[c].unified THEN <<WorldSize(c)>>
              ELSE [n \in 1..Shape(c).nodes |-> Shape(c).gpus]

Ready(c) == clusters[c].asked /\ Len(clusters[c].pgs) = Len(Bundles(c))

\* Mutant: the order Ray placed the bundles in.
BundlesAsPlaced(pg) == [i \in 1..Len(pg) |-> i - 1]

\* _get_sorted_bundle_indices
SortedBundles(pg) ==
  [i \in 1..Len(pg) |->
     CHOOSE b \in 0..(Len(pg) - 1) : pg[b + 1] = InOrder(ToSet(pg))[i]]

\* The GPU of a bundle of get_placement_groups()[index], or of the only one.
Gpu(c, index, bundle) ==
  LET pgs == clusters[c].pgs
  IN  IF Len(pgs) = 1 THEN pgs[1][bundle + 1] ELSE pgs[index + 1][bundle + 1]

\* Mutant: always bundle 0.
FirstBundle(c) == 0

\* get_master_address_and_port: the bundle whose node is the master.
MasterBundle(c) ==
  IF clusters[c].unified THEN SortedBundles(clusters[c].pgs[1])[1] ELSE 0

Master(c) == Gpu(c, 0, MasterBundle(c))[1]

-----------------------------------------------------------------------------
(* Worker groups: the index of a placement group or node, and bundles there *)

ClusterOf(g) == CASE g = "reward" -> "reward"
                  [] g = "engine" /\ Generates /\ ~ job.colocated -> "inference"
                  [] OTHER -> "train"

\* One worker per bundle, in the order of the placement groups.
PerBundle(pgs) ==
  FlattenSeq([i \in 1..Len(pgs) |->
                [b \in 1..Len(pgs[i]) |-> [index |-> i - 1, bundles |-> <<b - 1>>]]])

\* Policy.__init__: in the order of nodes and GPUs if one placement group
\* spans the nodes.
PolicyLayout(c) ==
  IF clusters[c].unified
  THEN LET sorted == SortedBundles(clusters[c].pgs[1])
       IN  [i \in 1..Len(sorted) |-> [index |-> (i - 1) \div Shape(c).gpus,
                                      bundles |-> <<sorted[i]>>]]
  ELSE PerBundle(clusters[c].pgs)

\* The groups of `size` consecutive bundles that a placement group has room for.
TiedIn(index, pg, size) ==
  [k \in 1..(Len(pg) \div size) |->
     [index |-> index, bundles |-> [b \in 1..size |-> (k - 1) * size + b - 1]]]

TiedPerGroup(pgs, size) ==
  FlattenSeq([i \in 1..Len(pgs) |-> TiedIn(i - 1, pgs[i], size)])

NodesOf(pg) == {pg[b][1] : b \in DOMAIN pg}

\* Numbers in ascending order.
Numbered(numbers) ==
  [i \in 1..Cardinality(numbers) |->
     CHOOSE n \in numbers : Cardinality({m \in numbers : m < n}) = i - 1]

\* allocate_worker_groups: the bundles node by node, cut into groups; the
\* index is that of the first bundle's node.
TiedAcross(pg, size) ==
  LET OfNode(n) == Numbered({b \in 0..(Len(pg) - 1) : pg[b + 1][1] = n})
      nodes == Numbered(NodesOf(pg))
      flat  == FlattenSeq([i \in 1..Len(nodes) |-> OfNode(nodes[i])])
      Slice(k) == SubSeq(flat, (k - 1) * size + 1, k * size)
  IN  [k \in 1..(Len(flat) \div size) |->
         [index |-> Cardinality({n \in NodesOf(pg) : n < pg[Slice(k)[1] + 1][1]}),
          bundles |-> Slice(k)]]

EngineLayout(c) ==
  LET pgs == clusters[c].pgs
  IN  CASE job.backend = "sglang" -> TiedPerGroup(pgs, job.mp)
        [] job.backend # "sglang" /\ job.mp = 1 -> PerBundle(pgs)
        [] job.backend # "sglang" /\ job.mp > 1 /\ Len(pgs) = 1 ->
             TiedAcross(pgs[1], job.mp)
        [] OTHER -> TiedPerGroup(pgs, job.mp)

Layout(g) == IF g = "engine" THEN EngineLayout(ClusterOf(g))
                             ELSE PolicyLayout(ClusterOf(g))

\* The nodes of one placement group must have equally many bundles, some group
\* of workers must fit, and all of SGLang's servers.
LayoutFails(c) ==
  LET pgs == clusters[c].pgs
  IN  \/ /\ job.backend = "vllm" /\ job.mp > 1
         /\ \/ /\ Len(pgs) = 1
               /\ \E n, m \in NodesOf(pgs[1]) : On(n, ToSet(pgs[1])) # On(m, ToSet(pgs[1]))
            \/ EngineLayout(c) = <<>>
      \/ job.backend = "sglang" /\ Len(EngineLayout(c)) < WorldSize(c) \div job.mp

\* configure_worker: the seed of the engine of a group of workers.
Seed(w) == w.index * 1024 + w.bundles[1] \div Len(w.bundles)

-----------------------------------------------------------------------------
(* What the constructors refuse *)

\* Policy.__init__, before it asks for placement groups
PolicyRefuses(g) ==
  LET size == IF g = "reward" THEN 1 ELSE job.pp * job.cp * job.tp
      world == WorldSize(ClusterOf(g))
  IN  \/ /\ g # "reward"
         /\ \/ job.worker \in {"both", "neither"}
            \/ job.worker = "megatron" /\ Has("no_arch_list")
            \/ job.worker = "dtensor" /\ Has("lora")
      \/ world < size \/ world % size # 0
      \/ g = "reward" /\ Has("reward_misconfigured")

\* VllmGeneration.__init__ and SGLangGeneration.__init__
EngineRefuses ==
  LET world == WorldSize(ClusterOf("engine"))
  IN  IF job.backend = "sglang" THEN world \div job.mp = 0
      ELSE \/ world % job.mp # 0
           \/ Has("engine_pp") /\ ~ Has("async_engine")
           \/ Has("ep_not_multiple")
           \/ Has("engine_dp") /\ Has("async_engine")
           \/ Has("low_top_k") \/ Has("low_top_p") \/ Has("missing_keys")

Refuses(g) == IF g = "engine" THEN EngineRefuses ELSE PolicyRefuses(g)

\* Policy.__init__, when the workers have been created
RefusesAfterwards(g) ==
  /\ g \in {"policy", "teacher"}
  /\ Has("dynamic_batching") /\ (job.pp > 1 \/ Has("sequence_packing"))

\* DTensorPolicyWorker.__init__; DTensorPolicyWorkerV2 says the same in
\* validate_and_prepare_config, and more.
DTensorRefuses ==
  \/ Has("unknown_precision")
  \/ Has("sequence_packing") /\ (Has("vlm") \/ job.program = "rm" \/ job.cp > 1)
  \/ job.program = "rm" /\ Has("unknown_reward_type")
  \/ job.cp > 1 /\ (\/ Has("gemma3") \/ Has("vlm")
                    \/ job.tp > 1 /\ Has("sequence_parallel"))

AutomodelRefuses ==
  \/ DTensorRefuses
  \/ Has("lora") /\ job.tp > 1 /\ Has("triton")
  \/ Has("custom_moe") /\ (job.tp > 1 \/ job.cp > 1)

\* MegatronPolicyWorker.__init__: the model and its conversion
MegatronModelRefused ==
  \/ Has("unknown_precision")
  \/ job.program = "rm"
  \/ Has("conversion_not_mounted")
  \/ Has("freeze_moe_router") /\ Has("peft")

\* _apply_parallelism_config and _apply_performance_config
MegatronParallelismRefused ==
  \/ job.cp > 1 /\ ~ Has("sequence_packing")
  \/ Has("no_activation_func") \/ Has("incomplete_fp8")

\* _validate_optimizer_config to _validate_dtype_config
MegatronOptimizerRefused ==
  \/ Has("optimizer_cpu_offload") /\ Has("partial_offload")
  \/ Has("logprob_chunks") /\ ~ Has("defer_fp32_logits")
  \/ Has("moe_aux_loss")
  \/ Has("optimizer_dtype")

WorkerRefuses(g) ==
  CASE g = "reward" -> FALSE
    [] g # "reward" /\ job.worker = "megatron" ->
         \/ MegatronModelRefused
         \/ MegatronParallelismRefused
         \/ MegatronOptimizerRefused
    [] g # "reward" /\ job.worker = "dtensor_v2" -> AutomodelRefuses
    [] OTHER -> DTensorRefuses

-----------------------------------------------------------------------------
(* Setting up *)

\* The worker groups in the order setup makes them.
Plan ==
  LET engine == IF job.backend = "megatron" THEN <<>> ELSE <<"engine">>
  IN  CASE job.program = "eval" -> <<"engine">>
        [] job.program = "grpo" -> engine \o <<"policy">>
        [] job.program = "distillation" ->
             <<"teacher">> \o (IF job.backend = "vllm" THEN engine ELSE <<>>)
                           \o <<"policy">>
        [] OTHER -> <<"policy">>

\* initialize_generation_with_policy: both at once, in two threads.
Parallel == job.program = "grpo" /\ ~ job.colocated

NoGroup == [at |-> "idle", why |-> "", workers |-> <<>>]

SetupInit ==
  /\ job \in Jobs
  /\ nodesUp = job.up
  /\ clusters = [c \in ClusterNames |-> NoCluster]
  /\ groups = [g \in GroupNames |-> NoGroup]
  /\ main = "check" /\ why = "" /\ clashes = 0
  /\ pretrained = [g \in GroupNames |-> "none"]

MainFails(reason) == main' = "failed" /\ why' = reason
Fails(g, reason) ==
  groups' = [groups EXCEPT ![g].at = "failed", ![g].why = reason]
Reaches(g, stage) == groups' = [groups EXCEPT ![g].at = stage]

\* A node of the machine joins Ray's cluster late.
NodeJoins ==
  /\ job.late /\ nodesUp < job.nodes
  /\ nodesUp' = nodesUp + 1
  /\ UNCHANGED <<job, clusters, groups, main, why, pretrained, clashes>>

CheckSetup ==
  /\ main = "check"
  /\ IF SetupRefuses THEN MainFails("refused")
                     ELSE main' = "init" /\ UNCHANGED why
  /\ UNCHANGED <<job, nodesUp, clusters, groups, pretrained, clashes>>

\* The groups made before are up; the reward model is another actor's.
Turn(g) ==
  IF g = "reward" THEN HasReward
  ELSE /\ main = "init" /\ g \in ToSet(Plan)
       /\ \/ Parallel
          \/ \A i \in DOMAIN Plan : (\E j \in DOMAIN Plan : Plan[j] = g /\ i < j)
                                      => groups[Plan[i]].at = "up"

\* A constructor, up to the placement groups; those that exist are used.
Begin(g) ==
  /\ groups[g].at = "idle" /\ Turn(g)
  /\ IF Refuses(g) THEN Fails(g, "refused")
     ELSE Reaches(g, IF clusters[ClusterOf(g)].asked THEN "placing" ELSE "asking")
  /\ UNCHANGED <<job, nodesUp, clusters, main, why, pretrained, clashes>>

\* One placement group for all nodes: only for an engine of vLLM that does not
\* fit on one.
Unified(g) == /\ g = "engine" /\ job.backend = "vllm"
              /\ job.mp > Shape(ClusterOf(g)).gpus
Strategy(g) == IF g = "engine" /\ ~ job.colocated THEN "PACK" ELSE "SPREAD"

Asked(g) == [clusters[ClusterOf(g)] EXCEPT !.asked = TRUE, !.unified = Unified(g),
                                           !.strategy = IF Unified(g) THEN Strategy(g)
                                                        ELSE "PACK"]

\* _init_placement_groups: ask Ray for them; while its whole cluster has too
\* few GPUs, sleep and try again.
Ask(g) ==
  LET c == ClusterOf(g)
  IN  /\ groups[g].at = "asking"
      /\ IF WorldSize(c) <= nodesUp * job.gpus
         THEN /\ clusters' = [clusters EXCEPT ![c] = Asked(g)]
              /\ Reaches(g, "placing")
         ELSE /\ clusters' = [clusters EXCEPT ![c].tries = @ + 1]
              /\ IF clusters[c].tries + 1 = MaxRetries
                 THEN Fails(g, "insufficient") ELSE UNCHANGED groups
      /\ UNCHANGED <<job, nodesUp, main, why, pretrained, clashes>>

NextPlacements(c) ==
  Placements(Bundles(c)[Len(clusters[c].pgs) + 1], clusters[c])

\* Ray reserves the bundles of a placement group, all at once.
ReservePlacementGroup(c) ==
  /\ clusters[c].asked /\ ~ Ready(c)
  /\ \E pg \in NextPlacements(c) :
       clusters' = [clusters EXCEPT ![c].pgs = Append(@, pg)]
  /\ UNCHANGED <<job, nodesUp, groups, main, why, pretrained, clashes>>

\* pg.ready() takes longer than three minutes: they are removed.
PlacementTimesOut(g) ==
  LET c == ClusterOf(g)
  IN  /\ groups[g].at = "placing" /\ ~ Ready(c) /\ NextPlacements(c) = {}
      /\ clusters' = [clusters EXCEPT ![c] = [NoCluster EXCEPT !.tries = clusters[c].tries]]
      /\ Fails(g, "timeout")
      /\ UNCHANGED <<job, nodesUp, main, why, pretrained, clashes>>

\* RayWorkerGroup.__init__ creates the workers and waits for their handles.
CreateWorkers(g) ==
  LET c == ClusterOf(g)
  IN  /\ groups[g].at = "placing" /\ Ready(c)
      /\ CASE g = "engine" /\ LayoutFails(c) -> Fails(g, "layout")
           [] RefusesAfterwards(g) -> Fails(g, "refused")
           [] OTHER -> groups' = [groups EXCEPT ![g].at = "created",
                                                ![g].workers = Layout(g)]
      /\ UNCHANGED <<job, nodesUp, clusters, main, why, pretrained, clashes>>

\* The groups that hold a share of the GPUs of a cluster.
Holders(c) == {g \in GroupNames : groups[g].at = "up" /\ ClusterOf(g) = c}

HasShare(g) ==
  groups[g].at = "created" /\ Cardinality(Holders(ClusterOf(g))) < Colocatable(ClusterOf(g))

\* MegatronPolicyWorker.__init__: the workers convert the model together,
\* unless the directory of the conversion exists.
Converts(g) == g \in {"policy", "teacher"} /\ job.worker = "megatron"

StartConversion(g) ==
  /\ HasShare(g) /\ Converts(g) /\ pretrained[g] = "none"
  /\ pretrained' = [pretrained EXCEPT ![g] = "part"]
  /\ Reaches(g, "converting")
  /\ UNCHANGED <<job, nodesUp, clusters, main, why, clashes>>

FinishConversion(g) ==
  /\ groups[g].at = "converting"
  /\ pretrained' = [pretrained EXCEPT ![g] = "whole"]
  /\ Reaches(g, "created")
  /\ UNCHANGED <<job, nodesUp, clusters, main, why, clashes>>

Up(g) == Reaches(g, "up")
Idle == UNCHANGED <<job, nodesUp, clusters, main, why, pretrained, clashes>>

\* __init__ in every worker of a model, which needs its share of a GPU.
ComeUp(g) ==
  /\ g # "engine" /\ HasShare(g)
  /\ Converts(g) => pretrained[g] # "none"
  /\ IF Converts(g) /\ pretrained[g] = "part" THEN Fails(g, "unreadable")
     ELSE IF WorkerRefuses(g) THEN Fails(g, "refused")
     ELSE Up(g)
  /\ Idle

\* The first worker of each group builds its engine, the others return at once.
\* VllmGeneration then compares its data-parallel size with the groups it got.
VllmComesUp ==
  /\ HasShare("engine") /\ job.backend = "vllm"
  /\ IF Has("quantized_gpt_oss") /\ ~ Has("dummy_load_format")
     THEN Fails("engine", "refused")
     ELSE IF Len(groups["engine"].workers) # WorldSize(ClusterOf("engine")) \div job.mp
     THEN Fails("engine", "mismatch")
     ELSE Up("engine")
  /\ Idle

\* The first worker of each group starts a server and asks until it is healthy.
SGLangComesUp ==
  /\ HasShare("engine") /\ job.backend = "sglang"
  /\ Up("engine")
  /\ Idle

\* The port found for the master has been taken when rank 0 binds it.
PortTaken(g) ==
  /\ groups[g].at = "created" /\ clashes < MaxClashes
  /\ Fails(g, "port")
  /\ clashes' = clashes + 1
  /\ UNCHANGED <<job, nodesUp, clusters, main, why, pretrained>>

\* A constructor has returned or raised; Policy does not wait for its workers.
Returned(g) == \/ groups[g].at \in {"up", "failed"}
               \/ g = "policy" /\ groups[g].at = "created"

\* setup raises what a group raised; two threads are both waited for first.
GroupFailed ==
  /\ main = "init"
  /\ Parallel => \A g \in ToSet(Plan) : Returned(g)
  /\ \E g \in ToSet(Plan) : groups[g].at = "failed" /\ MainFails(groups[g].why)
  /\ UNCHANGED <<job, nodesUp, clusters, groups, pretrained, clashes>>

\* What setup waits for: distillation without an engine has no call to the
\* student's workers.
Waited(g) ==
  \/ groups[g].at = "up"
  \/ /\ g = "policy" /\ job.program = "distillation" /\ job.backend = "megatron"
     /\ groups[g].at = "created"

\* The ranks the policy's workers and vLLM's take in the process group of the
\* weight updates (init_collective).
PolicyRanks == [r \in 1..Len(groups["policy"].workers) |-> r - 1]

\* train_world_size + rank_prefix + local_rank
EngineRanks ==
  LET total  == Len(groups["engine"].workers) * job.mp
      prefix == total \div Len(groups["engine"].workers)
  IN  [r \in 1..total |-> WorldSize("train") + ((r - 1) \div job.mp) * prefix
                                             + ((r - 1) % job.mp)]

\* Everybody joins that process group. SGLang's init_collective does nothing.
Rendezvous == job.backend = "vllm"

\* setup goes on when the groups are up. distillation.setup leaves
\* student_generation unbound with SGLang; force_on_policy_ratio is checked last.
FinishSetup ==
  /\ main = "init"
  /\ \A g \in ToSet(Plan) : Waited(g)
  /\ IF job.program = "distillation" /\ job.backend = "sglang" THEN MainFails("unbound")
     ELSE IF Generates /\ ~ job.colocated /\ ~ Rendezvous THEN MainFails("rendezvous")
     ELSE IF job.program = "grpo" /\ Has("off_policy_ratio") THEN MainFails("refused")
     ELSE main' = "ready" /\ UNCHANGED why
  /\ UNCHANGED <<job, nodesUp, clusters, groups, pretrained, clashes>>

SetupStep ==
  \/ NodeJoins
  \/ CheckSetup
  \/ GroupFailed
  \/ FinishSetup
  \/ \E g \in GroupNames : \/ Begin(g)
                           \/ Ask(g)
                           \/ CreateWorkers(g)
                           \/ StartConversion(g)
                           \/ FinishConversion(g)
                           \/ ComeUp(g)
                           \/ PlacementTimesOut(g)
  \/ VllmComesUp
  \/ SGLangComesUp
  \/ \E c \in ClusterNames : ReservePlacementGroup(c)

SetupNext == SetupStep \/ \E g \in GroupNames : PortTaken(g)

\* Ray and the actors go on, and a node that is to join does.
SetupFairness == WF_setupVars(NodeJoins) /\ WF_setupVars(SetupStep)
SetupSpec == SetupInit /\ [][SetupNext]_setupVars /\ SetupFairness

-----------------------------------------------------------------------------
(* Properties *)

Placed(g) == groups[g].at \in {"created", "converting", "up"}
GpusOf(g, w) == {Gpu(ClusterOf(g), w.index, b) : b \in ToSet(w.bundles)}
GpusOfGroup(g) == UNION {GpusOf(g, w) : w \in ToSet(groups[g].workers)}
SameNode(gpus) == Cardinality({gpu[1] : gpu \in gpus}) = 1

\* Rank 0 of a group of workers runs on the node its master's address is of,
\* and when inference has GPUs of its own, the workers of the policy and of all
\* engines take the ranks of the process group of the weight updates, each rank
\* once (worker_groups.py:373-375, virtual_cluster.py:419-438,
\* grpo.py:632-643, vllm_backend.py:41-62).
RendezvousComplete ==
  /\ \A g \in {"teacher", "policy", "reward"} :
       Placed(g) => \E gpu \in GpusOf(g, groups[g].workers[1]) :
                      gpu[1] = Master(ClusterOf(g))
  /\ main \in {"ready", "running"} /\ Generates /\ ~ job.colocated =>
       LET ranks == PolicyRanks \o EngineRanks
           world == WorldSize("train") + WorldSize("inference")
       IN  Len(ranks) = world /\ ToSet(ranks) = 0..(world - 1)

\* The clusters of the job take whole nodes. One that spans nodes and is spread
\* over those of Ray takes parts of them when another cluster leaves it more nodes
\* than it needs.
WholeNodes ==
  \/ job.nodes = 1
  \/ /\ \A g \in ToSet(Plan) : Shape(ClusterOf(g)).gpus = job.gpus
     /\ HasReward => /\ job.reward.gpus = job.gpus
                     /\ ~ (Unified("engine") /\ Strategy("engine") = "SPREAD")

\* The workers of a group sit on different GPUs; where the parallel ranks of a
\* model or an engine fit on a node they share one; no two of up to 1024 engines
\* sample with one seed; and an engine that takes turns with the policy sits on the
\* policy's GPUs, on all of them if its size divides their number
\* (virtual_cluster.py:440-488, lm_policy.py:146-156, vllm_generation.py:208-313).
PlacementSound ==
  /\ \A g \in GroupNames : Placed(g) =>
       LET ws == groups[g].workers
       IN  \A i, j \in DOMAIN ws : i # j => GpusOf(g, ws[i]) \cap GpusOf(g, ws[j]) = {}
  /\ WholeNodes => \A g \in {"teacher", "policy"} :
       Placed(g) /\ Shape("train").gpus % job.tp = 0 =>
         \A k \in 0..(WorldSize("train") \div job.tp - 1) :
           SameNode(UNION {GpusOf(g, groups[g].workers[k * job.tp + r]) : r \in 1..job.tp})
  /\ Placed("engine") =>
       LET ws == groups["engine"].workers
       IN  /\ WholeNodes /\ job.mp <= Shape(ClusterOf("engine")).gpus =>
                \A i \in DOMAIN ws : SameNode(GpusOf("engine", ws[i]))
           /\ Len(ws) <= 1024 =>
                \A i, j \in DOMAIN ws : i # j => Seed(ws[i]) # Seed(ws[j])
  /\ groups["engine"].at = "up" /\ Placed("policy") /\ job.colocated =>
       /\ GpusOfGroup("engine") \subseteq GpusOfGroup("policy")
       /\ WorldSize("train") % job.mp = 0 => GpusOfGroup("engine") = GpusOfGroup("policy")
=============================================================================
