-------------------------- MODULE MCPolicyDispatch --------------------------
(* Batches, layouts and configurations for the model checker. *)
EXTENDS PolicyDispatch

Layout(pp, dp, cp, tp) == (PP :> pp) @@ (DP :> dp) @@ (CP :> cp) @@ (TP :> tp)
TensorParallel  == Layout(1, 2, 1, 2)
ContextParallel == Layout(1, 2, 2, 1)
Pipeline        == Layout(2, 2, 1, 1)

Base(backend) ==
  [backend |-> backend, reward |-> FALSE, layout |-> TensorParallel,
   lens |-> <<6, 20, 9, 3>>, mode |-> "plain", algorithm |-> "none",
   gbs |-> 2, mbs |-> 1, logprobBatch |-> 2, scoreBatch |-> 2,
   trainTokens |-> 26, logprobTokens |-> 28, round |-> 4,
   sequenceParallel |-> FALSE, fp8 |-> 1]

Backends == {"dtensor", "dtensor_v2", "megatron"}
Layouts == {TensorParallel, ContextParallel, Pipeline}
Short == <<6, 20, 9, 3>>
Long  == <<27, 5, 5, 5>>
Eight == <<24, 8, 8, 12, 4, 16, 9, 4>>

Plain == {[Base(b) EXCEPT !.layout = l, !.mbs = m, !.logprobBatch = m] :
            b \in Backends, l \in Layouts, m \in {1, 2}}
Dynamic == {[Base(b) EXCEPT !.layout = a, !.lens = l, !.mode = "dynamic"] :
              b \in Backends, a \in {ContextParallel, TensorParallel},
              l \in {Short, Long, Eight}}
Packing1(b, layout, lens, algorithm) ==
  [Base(b) EXCEPT !.layout = layout, !.lens = lens, !.mode = "packed",
                  !.gbs = 4, !.algorithm = algorithm]
Packed == {Packing1(b, a, l, p) :
             b \in Backends, a \in Layouts, l \in {Short, Eight},
             p \in {"concatenative", "modified_first_fit_decreasing"}}
Others == {Packing1("dtensor_v2", TensorParallel, l, "first_fit_decreasing") :
             l \in {Long, Eight}}
          \cup {Packing1("dtensor", TensorParallel, Short, "first_fit_shuffle")}
\* Megatron pads rows for sequence parallelism, and the whole for FP8.
Padded == {[Packing1("megatron", a, Short, "modified_first_fit_decreasing")
            EXCEPT !.sequenceParallel = TRUE, !.fp8 = f] :
             a \in Layouts, f \in {1, 16}}
RewardModels == {[Base(b) EXCEPT !.reward = TRUE, !.mode = m, !.mbs = 1] :
                   b \in Backends, m \in {"plain", "dynamic"}}
Uneven == {[Base("dtensor") EXCEPT !.lens = <<3, 4, 5>>]}

MCSetups == Plain \cup Dynamic \cup Packed \cup Others \cup RewardModels
            \cup Padded \cup Uneven

=============================================================================
