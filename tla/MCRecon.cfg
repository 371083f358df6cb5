\* The reconnaissance chain, built-in and custom providers, exact and broad.
CONSTANTS
  Names <- MCNames
  InScope = {1, 2}
  Invalid = {4}
  Bare = {5}
  Addresses <- MCAddresses
  Malformed = 0
  Nobody = 99
  Exact <- MCExact
  Broad = Broad
  Pipelines <- MCPipelines
  Discoveries <- MCDiscoveries
  Resolutions <- MCResolutions
  Probes <- MCProbes
  Crawls <- MCCrawls
  Detections <- MCDetections
  Scans <- MCScans
  MaxTargets = 2
SPECIFICATION Spec
INVARIANTS
  WithinScope
  AliveIsJustified
  ResolutionTellsLoss
  ErrorsHaveCause
CHECK_DEADLOCK FALSE
