SPECIFICATION Spec
CONSTANTS
  c1 = c1
  c2 = c2
  k1 = k1
  k2 = k2
  Callers = {c1, c2}
  Keys = {k1, k2}
  Shard <- MCShard
  NumShards = 2
  Window = 2
  MaxTime = 3
  None = None
SYMMETRY CallerSymmetry
INVARIANTS AcceptsSpaced EntriesAreLastAccepts
PROPERTIES RejectsOnlyDuplicates
CHECK_DEADLOCK FALSE
