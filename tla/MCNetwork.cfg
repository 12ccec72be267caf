SPECIFICATION MCSpec
CONSTANTS
  Peers <- MCPeers
  FastFailTCP = TRUE
  KnowsMyIP = TRUE
  a1 = a1
  a2 = a2
  v6 = v6
  priv = priv
  vn = vn
  c1 = c1
  c2 = c2
  Askers = {c1, c2}
  IPs = {a1, a2, v6, priv, vn}
  Kind <- MCKind
  Subnet <- MCSubnet
  NoSubnet = NoSubnet
  InDatabase = {a1}
  Unknown = Unknown
  Nothing = Nothing
  QueueSize = 1
  MaxBatch = 2
  MaxLookups = 2
  Clients = {s1, s2}
  LoopSize = 2
  ClientSize = 1
  MaxEvents = 3
  NumJudges = 2
  Pickers = {}
  Evaluators = {}
  Answers = {}
  Sample <- MCSample
  FirstLatency = 5
CHECK_DEADLOCK FALSE
INVARIANTS SuccessIsRelayed VerdictIsDetermined AnswersFitAddress
PROPERTIES CheckEnds LookupsEnd RequestsAreAnswered BroadcastGoesOn MarksFollowJudges
