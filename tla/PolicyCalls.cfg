CONSTANTS
  WorldSize = 4
  Setups <- MCSetups
  MaxCalls = 2
SPECIFICATION Spec
INVARIANTS
  AnswersAligned
  StepUsesItsBatch
  WithinBudget
  OnlyBadInputRaises
PROPERTIES
  CallsReturn
\* After MaxCalls calls, or when one raised, nothing more is called; that a
\* call does not get stuck is CallsReturn.
CHECK_DEADLOCK FALSE
