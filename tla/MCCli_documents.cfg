\* Expected violation: stdout holds one document, as the documents say.
CONSTANTS
  Ids <- MCIds
  Keys <- MCKeys
  Tools <- MCTools
  Providers <- MCProviders
  Compositions = {}
  Requests = {}
  CommandLines <- MCCommandLines
  Files <- MCFiles
  AppHosts <- MCAppHosts
SPECIFICATION CliSpec
INVARIANT
  JsonIsOneDocument
CHECK_DEADLOCK FALSE
