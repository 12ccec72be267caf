SPECIFICATION FairSpec
CONSTANTS
  Keys = {k1}
  NoRow = NoRow
  Savers = {s1}
  Flushers = {f1}
  Committer = Committer
  Data <- ScanAndRecheck
  ChanCap = 1
  BatchSize = 2
  MaxFail = 2
  MayFail = TRUE
  MaxSaves = 3
  None = None
INVARIANTS EachSaveHasOneFate RowsConsistent CloseCommitsBacklog
PROPERTIES ImplementsLedger SavesAreSettled
