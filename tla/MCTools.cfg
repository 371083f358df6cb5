CONSTANTS
  Tools <- MCTools
  Candidates <- MCCandidates
  Probed <- MCProbed
  Lines <- MCLines
  Limits <- MCLimits
SPECIFICATION Spec
INVARIANTS
  ReadyMeansRunnable
  ReportIsHonest
  CaptureIsExact
  SurvivorIsLeast
PROPERTY
  CallEnds
CHECK_DEADLOCK FALSE
