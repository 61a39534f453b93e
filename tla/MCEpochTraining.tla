-------------------------- MODULE MCEpochTraining ---------------------------
(* A training for the model checker, with each kind of worker. *)
EXTENDS EpochTraining

MCSetups ==
  {[algorithm |-> "dpo", worker |-> w, enabled |-> TRUE, maxEpochs |-> 2,
    maxSteps |-> 5, savePeriod |-> 2, valPeriod |-> 2, valAtStart |-> TRUE,
    deadline |-> None] : w \in {"dtensor", "dtensor_v2", "megatron"}}
=============================================================================
