CONSTANTS
  Ids <- MCIds
  Keys <- MCKeys
  Tools <- MCTools
  Providers <- MCProviders
  Compositions = {}
  Requests = {}
  CommandLines <- MCCommandLines
  Files <- MCFiles
  AppHosts <- MCAppHosts
SPECIFICATION CliSpec
INVARIANTS
  ExitTellsScan
  JsonOutcomeStated
  ComposedIsSound
CHECK_DEADLOCK FALSE
