CONSTANTS
  Ids <- MCIds
  Keys <- MCKeys
  Tools <- MCTools
  Providers <- MCProviders
  Compositions <- MCCompositions
  Requests <- MCRequests
  Hosts <- MCHosts
SPECIFICATION DoctorSpec
INVARIANTS
  VerdictIsReadiness
  EventsTellOutcome
  ForecastHolds
CHECK_DEADLOCK FALSE
