CONSTANTS
  c1 = c1
  c2 = c2
  c3 = c3
  long = long
  Cve <- MCCve
  Overlong = {long}
  Collections <- MCCollections
  Holdings <- MCHoldings
  OddBodies <- MCOddBodies
  CustomAnswers <- MCCustomAnswers
  MaxCves = 3
  MaxUrlCves = 2
  MaxRecords = 3
  MaxAssessments = 2
SPECIFICATION Spec
INVARIANTS
  OutcomesAreExact
  DataIsItsOwn
  FailureIsIsolated
PROPERTY EnrichmentEnds
CHECK_DEADLOCK FALSE
