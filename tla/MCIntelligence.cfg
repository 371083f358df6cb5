CONSTANTS
  CpeItems <- MCCpeItems
  CveItems <- MCCveItems
  Products <- MCProducts
  Records <- MCRecords
  OddPages <- MCOddPages
  PageSizes = {1, 2, 3}
  MaxRetries = 2
  MaxPages = 3
  Observations <- MCObservations
  OddIntelligence <- MCOddIntelligence
  OddGraphs <- MCOddGraphs
SPECIFICATION ChainSpec
INVARIANTS
  LookupsAreExact
  MatchIsJustified
  RisksAreThePaths
PROPERTY
  LookupsEnd
CHECK_DEADLOCK FALSE
