\* Three runs, killed anywhere, two of which may save existing steps again.
CONSTANTS
  KeepTopK = 1
  UsesMetric = TRUE
  HigherIsBetter = FALSE
  Metrics = {0}
  MaxStep = 3
  MaxRuns = 3
  MaxRewinds = 2
SPECIFICATION Spec
INVARIANTS
  LatestIsWhole
  NothingLost
  BestKept
  RoomBounded
\* A run ends at its last step.
CHECK_DEADLOCK FALSE
