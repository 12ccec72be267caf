SPECIFICATION DaemonSpec
CONSTANTS
  k1 = k1
  k2 = k2
  w1 = w1
  w2 = w2
  Keys = {k2}
  NoRow = NoRow
  None = None
  Data <- MCData
  MaxFail = 2
  Workers = {w1}
  Verdicts <- MCVerdicts
  InitialRows <- MCInitialRows
  QueryLimit = 2
  BatchSize = 2
  MayCancel = TRUE
  MaxScans = 1
  MaxCycles = 3
CHECK_DEADLOCK FALSE
INVARIANTS FailsAreChecks HealthyProxyIsKept
