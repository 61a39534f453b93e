CONSTANTS
  Setups <- MCSetups
  Batches = 3
  Durations = {1}
  SaveTimes = {0}
  MaxCrashes = 1
SPECIFICATION Spec
INVARIANT FrozenReference
CHECK_DEADLOCK FALSE
