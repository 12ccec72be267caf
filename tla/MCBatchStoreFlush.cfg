SPECIFICATION Spec
CONSTANTS
  Keys = {k1}
  NoRow = NoRow
  Savers = {s1}
  Flushers = {f1}
  Committer = Committer
  Data <- OnlyScans
  ChanCap = 1
  BatchSize = 2
  MaxFail = 2
  MayFail = FALSE
  MaxSaves = 2
  None = None
PROPERTIES FlushMakesSavesVisible
CHECK_DEADLOCK FALSE
