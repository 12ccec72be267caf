SPECIFICATION FairCheckSpec
CONSTANTS
  k1 = k1
  k2 = k2
  Workers = {w1, w2}
  Keys = {k1, k2}
  Junk = Junk
  Lines <- OneLine
  QueueCap = 1
  Verdicts <- MCVerdicts
  MaxPasses = 2
  HasStore = TRUE
  FilesMayFail = TRUE
  Loop = TRUE
  MayFail = TRUE
INVARIANTS JobsConserved AliveIsExported DbWithinFiles NoWorkAfterClose CleanExitIsComplete
PROPERTIES JobsAreChecked SignalEndsProcess ScanEnds
