CONSTANTS
  Axes <- MCAxes
  AxisSize <- MCAxisSize
  Setups <- MCSetups
  Outcomes <- MCOutcomes
  MaxSeqLen = 7
  MaxNewTokens = 2
  MaxTurns = 2
  Environments = {"math", "code"}
SPECIFICATION Spec
INVARIANTS
  OwnConversation
  TruncatedAtTheLimit
  EndsForAReason
PROPERTIES
  RolloutReturns
\* A rollout that has returned or raised does nothing more.
CHECK_DEADLOCK FALSE
