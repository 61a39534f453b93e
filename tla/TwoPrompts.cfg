\* Two prompts per step and in-flight weight updates, so that a refit can fall
\* between the two prompts of a batch; a rollout that raises, an exception in the
\* training loop, saves, and a dataloader that runs out.
CONSTANTS
  w1 = w1
  w2 = w2
  NoSlot = NoSlot
  Slots <- MCTwoSlots
  MaxSize <- MCMaxSize
  Targets <- MCTargets
  NumPrompts = 2
  MaxAge = 1
  StartStep = 0
  NumBatches = 2
  InFlight = TRUE
  MaxFailures = 1
  MaxSteps = 2
  ValPeriod = 0
  ValAtStart = FALSE
  SavePeriod = 2
  MayRaise = TRUE
SPECIFICATION Spec
INVARIANTS
  TypeOK
  PermitsBalanced
  ReservationOwned
  LabelNotPastTarget
  NotOvertaken
PROPERTIES
  ImplementsStepwise
SYMMETRY SlotSymmetry
\* The run ends: the trainer returns and the actors are killed.
CHECK_DEADLOCK FALSE
