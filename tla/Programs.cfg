CONSTANTS
  Launches <- MCLaunches
  Jobs <- MCJobs
  Setups <- MCSetups
  Quizzes <- MCQuizzes
  MaxRetries = 2
  MaxClashes = 1
  Batches = 3
  Durations = {1, 2}
  SaveTimes = {0, 2}
  MaxCrashes = 2
  Gold <- MCGold
  Right <- MCRight
  Wrong <- MCWrong
SPECIFICATION ProgramSpec
INVARIANTS
  CheckpointIsUninterrupted
  BeginsInTime
  RendezvousComplete
  PlacementSound
  ScoresAreRight
PROPERTIES
  ProgramCompletes
\* A program that is over does nothing more.
CHECK_DEADLOCK FALSE
