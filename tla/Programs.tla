------------------------------ MODULE Programs ------------------------------
(***************************************************************************)
(* The programs of examples/run_*.py from their start to their end: the    *)
(* workers are set up (module JobSetup), then one of the epoch loops trains *)
(* (EpochTraining) or a model is evaluated (Evaluation). A job that failed  *)
(* to come up, or that ended before its training did, is launched again     *)
(* and sets everything up anew.                                            *)
(***************************************************************************)
EXTENDS EpochTraining, JobSetup, Evaluation

CONSTANT Launches   \* what may be launched: a job, its training or evaluation

Trains == job.program \in {"sft", "dpo", "rm", "distillation"}
Evaluates == job.program = "eval"

SetUpIdle == UNCHANGED setupVars
TrainingIdle == UNCHANGED vars
EvaluationIdle == UNCHANGED evalVars

ProgramInit ==
  /\ SetupInit /\ Init /\ EvalInit
  /\ [job |-> job, setup |-> setup, quiz |-> quiz] \in Launches

SetsUp == SetupStep /\ TrainingIdle /\ EvaluationIdle
PortClash == (\E g \in GroupNames : PortTaken(g)) /\ TrainingIdle /\ EvaluationIdle

\* setup has returned: the loop starts.
Start ==
  /\ main = "ready"
  /\ main' = "running"
  /\ IF Trains THEN StartJob ELSE TrainingIdle
  /\ UNCHANGED <<job, nodesUp, clusters, groups, why, pretrained, clashes>>
  /\ EvaluationIdle

TrainingStep == main = "running" /\ Trains /\ JobStep /\ SetUpIdle /\ EvaluationIdle
EvaluationStep == main = "running" /\ Evaluates /\ EvalNext /\ SetUpIdle /\ TrainingIdle

\* A crash of the loop, or of a job that is coming up.
CrashInLoop == main = "running" /\ Trains /\ Crash /\ SetUpIdle /\ EvaluationIdle

CrashInSetup ==
  /\ main \in {"check", "init"} /\ Trains /\ crashes < MaxCrashes
  /\ main' = "failed" /\ why' = "killed"
  /\ crashes' = crashes + 1
  /\ UNCHANGED <<job, nodesUp, clusters, groups, pretrained, clashes>>
  /\ UNCHANGED <<given, phase, counters, loader, batch, learnt, generation, stale,
                 validated, metric, clock, disk>>
  /\ EvaluationIdle

\* What another attempt may change: the configuration stays.
Unlucky == why \in {"killed", "port", "insufficient", "timeout"}

\* The next job of the training. The actors of the last one are gone, and their
\* placement groups with them.
Relaunch ==
  /\ \/ main = "running" /\ Trains /\ phase = "down"
     \/ main = "failed" /\ Unlucky
  /\ main' = "check" /\ why' = ""
  /\ clusters' = [c \in ClusterNames |-> NoCluster]
  /\ groups' = [g \in GroupNames |-> NoGroup]
  /\ UNCHANGED <<job, nodesUp, pretrained, clashes>>
  /\ TrainingIdle /\ EvaluationIdle

Goes == Start \/ TrainingStep \/ EvaluationStep \/ Relaunch \/ SetsUp
ProgramNext == Goes \/ PortClash \/ CrashInLoop \/ CrashInSetup

programVars == <<setupVars, vars, evalVars>>

\* The actors and the loop go on, nodes that are to join do, and whoever runs
\* the training launches it again.
ProgramFairness ==
  WF_programVars(NodeJoins /\ TrainingIdle /\ EvaluationIdle) /\ WF_programVars(Goes)
ProgramSpec == ProgramInit /\ [][ProgramNext]_programVars /\ ProgramFairness

-----------------------------------------------------------------------------
\* A configuration whose parts fit each other, on a machine large enough; the
\* combinations of back ends that the code does not refuse, but that cannot
\* come up, are excepted (README).
Fitting ==
  /\ ~ SetupRefuses
  /\ job.settings = {}
  /\ job.late \/ job.up = job.nodes
  /\ \A g \in ToSet(Plan) : ~ Refuses(g)
  /\ job.worker = "megatron" => job.program # "rm" /\ job.cp = 1
  /\ job.program = "distillation" => job.backend = "vllm"
  /\ Generates /\ ~ job.colocated => job.backend = "vllm"
  /\ "engine" \in ToSet(Plan) =>
       LET gpus == Shape(ClusterOf("engine")).gpus
       IN  IF job.mp <= gpus THEN gpus % job.mp = 0
           ELSE job.backend = "vllm" /\ job.program # "distillation" /\ ~ HasReward

\* A job was killed in the conversion of the pretrained model: the next one
\* takes what there is for the whole (megatron/setup.py:248-265).
ConversionCut == why = "unreadable"

\* A program whose configuration fits comes up and ends, however often its jobs
\* crash, are short of nodes or lose a port: the training with its final
\* weights, which are on disk if checkpoints are enabled, the evaluation with
\* its score or an exception of its environment. One whose configuration is
\* refused fails (grpo.py:190-720, sft.py:88-230, distillation.py:155-495,
\* virtual_cluster.py:231-361).
ProgramCompletes ==
  /\ Fitting =>
       <>(\/ ConversionCut
          \/ /\ main = "running"
             /\ Trains => /\ phase = "over"
                          /\ weights = Uninterrupted(Final)
                          /\ setup.enabled => disk # None /\ disk.weights = weights
             /\ Evaluates => stage \in {"over", "raised"}
          \/ main = "ready" /\ ~ Trains /\ ~ Evaluates)
  /\ SetupRefuses \/ (\E g \in ToSet(Plan) : Refuses(g)) => <>(main = "failed")
=============================================================================
