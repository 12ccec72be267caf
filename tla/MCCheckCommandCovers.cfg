SPECIFICATION CheckSpec
CONSTANTS
  k1 = k1
  k2 = k2
  Workers = {w1}
  Keys = {k1, k2}
  Junk = Junk
  Lines <- ThreeLines
  QueueCap = 1
  Verdicts <- MCVerdicts
  MaxPasses = 1
  HasStore = TRUE
  FilesMayFail = FALSE
  Loop = FALSE
  MayFail = FALSE
INVARIANTS ScanCoversInput
