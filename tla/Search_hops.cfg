CONSTANTS
  f1 = f1
  n1 = n1
  d1 = d1
  x1 = x1
  Memories = {f1, n1, d1, x1}
  Stored = {f1, n1, x1}
  Kind <- MCKind
  Home <- MCHome
  SourceLinked = {}
  Synthesized = {}
  OffTopic = {}
  Unrelated = {}
  Dated = {f1}
  Ends <- MCEnds
  Named = {"ann"}
  GraphChainDepth = 1
  Outdated <- MCOutdated
  Bonus <- MCBonus
  StaleDemotionWeight <- NearTie
  Here = "here"
  Route = {"SingleHop"}
  Auxiliary = {"vector", "graph", "event_year"}
  TemporalFusionWeight = 1
  ChunkFusionWeight = 1
  TierEarlyExit = TRUE
  RRF_K = 60
  Scale <- MCScale
  SOURCE_FACT_FLOOR_MAX_SLOTS = 5
  DepthFactor = 1
  DepthFloor = 2
  FloorFactor = 5
  Limit = 2
  RerankPool = 3
  MaxHops = 2
  MaxForgotten = 1
  MaxFailures = 1
SPECIFICATION SearchSpec
INVARIANTS
  AnswerIsClean
  QuotasHold
  RerankOnlyPromotes
CHECK_DEADLOCK FALSE
