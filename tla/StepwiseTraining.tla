-------------------------- MODULE StepwiseTraining --------------------------
(***************************************************************************)
(* What asynchronous GRPO promises of its training steps, with nothing     *)
(* said of how the rollouts are generated, labelled and buffered:          *)
(*   - each step trains on exactly NumPrompts prompt groups;               *)
(*   - each of them was generated with weights at most MaxAge versions     *)
(*     older than those being trained, and none newer;                     *)
(*   - no group is trained on twice;                                       *)
(*   - each step produces exactly one new weight version, published before *)
(*     the step ends.                                                      *)
(* The run may end at any point (last step, deadline, exception).          *)
(***************************************************************************)
EXTENDS Integers, FiniteSets

CONSTANTS NumPrompts, MaxAge, StartStep, MaxSteps

VARIABLES
  phase,      \* "gather", "train", "publish" or "ended"
  step,       \* the step being worked on
  weights,    \* the version of the last published weights
  batch,      \* the groups being trained on
  used        \* the numbers of the groups trained on so far

vars == <<phase, step, weights, batch, used>>

Numbers(S) == {g.no : g \in S}

Init ==
  /\ phase = "gather"
  /\ step = StartStep
  /\ weights = StartStep
  /\ batch = {}
  /\ used = {}

Gather ==
  /\ phase = "gather"
  /\ step < MaxSteps
  /\ Cardinality(batch') = NumPrompts
  /\ Cardinality(Numbers(batch')) = NumPrompts
  /\ \A g \in batch' : weights - MaxAge <= g.ver /\ g.ver <= weights
  /\ Numbers(batch') \cap used = {}
  /\ used' = used \cup Numbers(batch')
  /\ phase' = "train"
  /\ UNCHANGED <<step, weights>>

Publish ==
  /\ phase = "train"
  /\ weights' = step + 1
  /\ phase' = "publish"
  /\ UNCHANGED <<step, batch, used>>

EndStep ==
  /\ phase = "publish"
  /\ step' = step + 1
  /\ batch' = {}
  /\ phase' \in {"gather", "ended"}
  /\ UNCHANGED <<weights, used>>

End ==
  /\ phase # "ended"
  /\ phase' = "ended"
  /\ UNCHANGED <<step, weights, batch, used>>

Next == Gather \/ Publish \/ EndStep \/ End

Spec == Init /\ [][Next]_vars
=============================================================================
