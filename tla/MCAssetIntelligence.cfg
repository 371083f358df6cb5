CONSTANTS
  Aliases = {1, 2, 3, 4, 5}
  Addresses = {4, 5}
  Observations <- MCObservations
  Inputs <- MCInputs
  None = None
SPECIFICATION Spec
INVARIANTS
  IndexIsPartition
  AssetsAreComponents
  ObservationsKept
CHECK_DEADLOCK FALSE
