----------------------------- MODULE MCPrograms ------------------------------
(* Launches for the model checker: a job with the training or evaluation it is for. *)
EXTENDS Programs

Configuration(algorithm) ==
  [algorithm |-> algorithm, worker |-> "dtensor", enabled |-> TRUE, maxEpochs |-> 2,
   maxSteps |-> 5, savePeriod |-> 2, valPeriod |-> 2, valAtStart |-> TRUE,
   deadline |-> None]

NoGpus == [nodes |-> 0, gpus |-> 0]

Job(program, nodes, gpus) ==
  [program |-> program, nodes |-> nodes, gpus |-> gpus, up |-> nodes, late |-> FALSE,
   colocated |-> TRUE, backend |-> "vllm", mp |-> 1, infer |-> NoGpus,
   reward |-> NoGpus, worker |-> "dtensor", pp |-> 1, cp |-> 1, tp |-> 1,
   settings |-> {}]

\* The gold is 12 and so is 4*3, which begins with the same character as 43.
MCGold == <<"1", "2">>
MCRight == {MCGold, <<"4", "*", "3">>}
MCWrong == {<<"4", "3">>}

Quiz == [environment |-> "math", verifier |-> "hf_math_verify", undecided |-> {},
         workers |-> 3, metric |-> "pass@k", tests |-> 2, k |-> 1, async |-> FALSE,
         prompts |-> 2, batch |-> 2]

Trained(j, s) == [job |-> [j EXCEPT !.worker = s.worker], setup |-> s, quiz |-> Quiz]
Evaluated(j, q) == [job |-> j, setup |-> Configuration("sft"), quiz |-> q]
SetUpOnly(j) == [job |-> j, setup |-> Configuration("sft"), quiz |-> Quiz]

OneGpu(program) == Job(program, 1, 1)

\* The four loops; two whole epochs, or a part of the second; time limits that
\* come after one step, after a few, and in the middle of the training.
Trainings ==
  {Trained(OneGpu(a), [Configuration(a) EXCEPT !.maxSteps = p[1], !.savePeriod = p[2]]) :
     a \in {"sft", "dpo", "rm", "distillation"}, p \in {<<5, 2>>, <<9, 4>>}}
  \cup {Trained(OneGpu(a), [Configuration(a) EXCEPT !.deadline = <<d>>, !.savePeriod = 9,
                                                    !.valPeriod = 3]) :
          a \in {"sft", "distillation"}, d \in {2, 5, 8}}
  \cup {Trained(OneGpu("rm"), [Configuration("rm") EXCEPT !.maxSteps = -1,
                                       !.valAtStart = FALSE, !.valPeriod = 0]),
        Trained(OneGpu("dpo"), [Configuration("dpo") EXCEPT !.enabled = FALSE]),
        Trained(Job("sft", 1, 2), [Configuration("sft") EXCEPT !.worker = "megatron"]),
        Trained([Job("dpo", 2, 1) EXCEPT !.late = TRUE, !.up = 1],
                [Configuration("dpo") EXCEPT !.worker = "dtensor_v2"]),
        Trained([Job("distillation", 1, 2) EXCEPT !.mp = 2],
                [Configuration("distillation") EXCEPT !.maxSteps = 3])}

\* Colocated engines over one and two nodes, engines on nodes or GPUs of their
\* own, a reward model, the other back ends, and what cannot come up.
Grpo == [Job("grpo", 2, 2) EXCEPT !.tp = 2]
Apart(gpus, nodes, up, infer, mp) ==
  [Job("grpo", nodes, gpus) EXCEPT !.up = up, !.late = (up < nodes), !.colocated = FALSE,
                                   !.infer = [nodes |-> infer, gpus |-> gpus], !.mp = mp]
SetUps ==
  {[Grpo EXCEPT !.mp = mp] : mp \in {1, 2, 4}}
  \cup {[Grpo EXCEPT !.worker = "megatron"],
        Apart(1, 3, 3, 2, 2), Apart(2, 3, 2, 2, 2), Apart(2, 3, 3, 1, 1),
        [Apart(2, 2, 2, 1, 2) EXCEPT !.backend = "sglang"],
        [Job("grpo", 1, 4) EXCEPT !.colocated = FALSE, !.mp = 2,
                                  !.infer = [nodes |-> 1, gpus |-> 2]],
        [Grpo EXCEPT !.backend = "sglang", !.mp = 2],
        [Grpo EXCEPT !.backend = "megatron", !.worker = "megatron"],
        [Job("grpo", 3, 2) EXCEPT !.reward = [nodes |-> 1, gpus |-> 2], !.mp = 2],
        [Job("grpo", 2, 2) EXCEPT !.reward = [nodes |-> 1, gpus |-> 1], !.mp = 2],
        [Job("distillation", 2, 2) EXCEPT !.mp = 4],
        [Job("distillation", 1, 2) EXCEPT !.backend = "megatron"],
        [Job("distillation", 1, 2) EXCEPT !.backend = "sglang"],
        [Grpo EXCEPT !.tp = 8],
        [Grpo EXCEPT !.settings = {"fp8"}],
        [Grpo EXCEPT !.settings = {"dynamic_batching", "sequence_packing"}],
        [Grpo EXCEPT !.settings = {"unknown_precision"}],
        [Job("grpo", 1, 4) EXCEPT !.mp = 3],
        [Job("grpo", 2, 3) EXCEPT !.mp = 2],
        [Job("grpo", 3, 2) EXCEPT !.reward = [nodes |-> 1, gpus |-> 2], !.mp = 4, !.tp = 2],
        [Job("grpo", 1, 3) EXCEPT !.backend = "sglang", !.mp = 2]}

Evaluations ==
  {Evaluated(OneGpu("eval"), q) :
     q \in {Quiz, [Quiz EXCEPT !.tests = 3, !.k = 2, !.prompts = 1],
            [Quiz EXCEPT !.tests = 1, !.prompts = 3],
            [Quiz EXCEPT !.metric = "cons@k", !.tests = 3, !.k = 3, !.prompts = 1],
            [Quiz EXCEPT !.undecided = MCWrong, !.metric = "cons@k", !.prompts = 1],
            [Quiz EXCEPT !.environment = "jaccard", !.verifier = "jaccard",
                         !.metric = "cons@k", !.tests = 3, !.k = 2, !.prompts = 1],
            [Quiz EXCEPT !.verifier = "english_multichoice", !.prompts = 1],
            [Quiz EXCEPT !.environment = "code", !.prompts = 1],
            [Quiz EXCEPT !.environment = "vlm", !.tests = 1, !.prompts = 1],
            [Quiz EXCEPT !.environment = "reward_model", !.tests = 1, !.prompts = 1],
            [Quiz EXCEPT !.verifier = "dapo_math_verify", !.prompts = 1]}}
  \cup {Evaluated([Job("eval", 1, 2) EXCEPT !.mp = 2],
                  [Quiz EXCEPT !.async = TRUE, !.k = 2, !.prompts = 1])}

MCLaunches == Trainings \cup {SetUpOnly(j) : j \in SetUps} \cup Evaluations
MCJobs == {l.job : l \in MCLaunches}
MCSetups == {l.setup : l \in MCLaunches}
MCQuizzes == {l.quiz : l \in MCLaunches}
=============================================================================
