SPECIFICATION MCSpec
CONSTANTS
  Parts = {"history"}
  w1 = w1
  w2 = w2
  h1 = h1
  h2 = h2
  e1 = e1
  e2 = e2
  Workers = {w1, w2}
  Snapshots = {snap}
  Dashboards = {dash}
  Classes = {"elite"}
  Results <- MCResults
  MaxJobs = 2
  HistorySize = 4
  HistoryReaders = {r1}
  Torn = Torn
  MaxPushes = 9
  CountCallers = {h1, h2}
  Counts = {0, 1}
  CacheTime = 2
  QueryTime = 1
  LastTick = 5
  NumJudges = 2
  Pickers = {p1}
  Evaluators = {e1, e2}
  Answers <- MCAnswers
  Sample <- MCSample
  FirstLatency = 5
SYMMETRY Symmetric
CHECK_DEADLOCK FALSE
INVARIANTS OrderedOldestFirst
