CONSTANTS
  Setups <- MCSetups
  Alignment = 2
SPECIFICATION Spec
INVARIANTS
  LoadedWhatWasSent
PROPERTIES
  TransferEnds
\* A refit that has raised, and the last refit, do nothing more.
CHECK_DEADLOCK FALSE
