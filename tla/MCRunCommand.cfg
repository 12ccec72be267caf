SPECIFICATION MCSpec
CONSTANTS
  k1 = k1
  k2 = k2
  w1 = w1
  w2 = w2
  Keys = {k1, k2}
  NoRow = NoRow
  None = None
  Data <- MCData
  MaxFail = 2
  Workers = {w1, w2}
  Verdicts <- MCVerdicts
  InitialRows <- NewOrScanned
  QueryLimit = 2
  BatchSize = 2
  MayCancel = TRUE
  MaxScans = 0
  MaxCycles = 2
CHECK_DEADLOCK FALSE
INVARIANTS DaemonTypeOK OnceEachCycle CancelCostsOneFailure ExitKeepsSaves
PROPERTIES SignalEndsCommand
