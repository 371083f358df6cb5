\* One run of up to two known capabilities, and two runs over one Context of one
\* that the caller declares; safety and liveness.
CONSTANTS
  Names <- MCNames
  ValidIds <- MCIds
  Keys <- MCKeys
  BoundedKeys = {"hosts"}
  Values <- MCValues
  Absent = Absent
  DefaultContracts <- MCContracts
  Declarations <- MCDeclared
  Seeds <- MCSeeds
  Policies <- MCPolicies
  MaxEntries = 2
  MaxRuns = 2
  MaxTime = 1
  ClockFaults = TRUE
SPECIFICATION MCSpec
INVARIANTS
  ContextIsHistory
  CanonicalWithinPolicy
  EventsTellHistory
PROPERTIES
  NothingAfterDeadline
  ImplementsContract
  RunEnds
CHECK_DEADLOCK FALSE
