SPECIFICATION Spec
CONSTANTS
  NoCountry = NoCountry
  None = None
  Sync = Sync
  Proxies <- MCProxies
  SplitByType = FALSE
  SplitByCountry = FALSE
  SaveJSON = TRUE
  SaveCSV = TRUE
  Syncs = TRUE
  MayFail = TRUE
  MaxCalls = 2
INVARIANTS LinesAreKept AliveListsEveryone
PROPERTIES SyncedFilesAgree
