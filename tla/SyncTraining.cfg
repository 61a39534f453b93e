\* Two epochs of three batches, with and without dynamic sampling, killed twice.
CONSTANTS
  Modes = {TRUE, FALSE}
  NumPrompts = 2
  BatchSize = 3
  MaxGenBatches = 1
  EpochBatches = 3
  MaxEpochs = 2
  StepLimits = {5, 9}
  ValPeriod = 2
  ValAtStart = TRUE
  SavePeriod = 4
  MaxRuns = 3
SPECIFICATION Spec
INVARIANTS
  FreshRollouts
  GpuShared
  TrainedOnce
  NothingSkipped
  FinalWeightsSaved
\* Training ends.
CHECK_DEADLOCK FALSE
