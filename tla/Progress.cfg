\* Three steps and a batch to spare, validations and saves, no in-flight weight
\* updates: the trainer waits for the pending workers, and double claims can
\* leave groups behind until they are too old.
CONSTANTS
  w1 = w1
  w2 = w2
  NoSlot = NoSlot
  Slots <- MCOneSlot
  MaxSize <- MCMaxSize
  Targets <- MCTargets
  NumPrompts = 1
  MaxAge = 1
  StartStep = 0
  NumBatches = 4
  InFlight = FALSE
  MaxFailures = 1
  MaxSteps = 3
  ValPeriod = 2
  ValAtStart = TRUE
  SavePeriod = 2
  MayRaise = FALSE
SPECIFICATION FairSpec
INVARIANTS
  AgeWindow
  LabelNotAhead
  NoGroupLost
  CapacityEnough
  StaleOnlyAfterDoubleClaim
PROPERTIES
  TrainingFinishes
  RefitGoesAhead
\* The run ends: the trainer returns and the actors are killed.
CHECK_DEADLOCK FALSE
