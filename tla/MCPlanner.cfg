CONSTANTS
  Ids <- SmallIds
  Keys <- SmallKeys
  Registries <- SmallRegistries
  GoalSets = {{}, {2}, {1, 3}}
  Contexts = {{}, {2}, {0, 3}}
  FactorySets <- SmallFactories
  Definitions <- SmallDefinitions
SPECIFICATION FairSpec
INVARIANTS
  PlanIffSatisfiable
  PlanIsCanonical
  BuiltIsExecutable
PROPERTY
  PlanningEnds
CHECK_DEADLOCK FALSE
