\* The smallest run in which a target is claimed twice.
CONSTANTS
  w1 = w1
  w2 = w2
  NoSlot = NoSlot
  Slots <- MCOneSlot
  MaxSize <- MCMaxSize
  Targets <- MCTargets
  NumPrompts = 1
  MaxAge = 1
  StartStep = 0
  NumBatches = 4
  InFlight = TRUE
  MaxFailures = 0
  MaxSteps = 2
  ValPeriod = 0
  ValAtStart = FALSE
  SavePeriod = 0
  MayRaise = FALSE
SPECIFICATION Spec
INVARIANTS
  ClaimedOnce
\* The run ends: the trainer returns and the actors are killed.
CHECK_DEADLOCK FALSE
