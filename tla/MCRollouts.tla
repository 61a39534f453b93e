----------------------------- MODULE MCRollouts -----------------------------
(* Batches, back ends and environments for the model checker. *)
EXTENDS Rollouts

MCAxes == <<DP, "tensor_parallel">>
MCAxisSize == (DP :> 2) @@ ("tensor_parallel" :> 2)

MCOutcomes ==
  {[tokens |-> 1, done |-> FALSE, meta |-> TRUE, stops |-> TRUE],
   [tokens |-> 2, done |-> FALSE, meta |-> FALSE, stops |-> FALSE],
   [tokens |-> 0, done |-> TRUE, meta |-> FALSE, stops |-> FALSE]}

Three == <<2, 3, 3>>
Interleaved == <<"math", "code", "math">>
Batch(backend) == [backend |-> backend, prompts |-> Three,
                   tasks |-> Interleaved]

MCSetups ==
  {Batch("vllm"), Batch("sglang"),
   [Batch("vllm") EXCEPT !.tasks[3] = "unheard of"],
   [backend |-> "vllm_async", prompts |-> <<2, 5>>,
    tasks |-> <<"math", "code">>],
   [backend |-> "vllm_async", prompts |-> <<7>>, tasks |-> <<"math">>],
   [backend |-> "vllm_async", prompts |-> <<2, 3>>,
    tasks |-> <<"math", "unheard of">>]}

=============================================================================
