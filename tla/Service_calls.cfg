CONSTANTS
  a = a
  b = b
  s1 = s1
  none = none
  w1 = w1
  w2 = w2
  Fact <- MCFact
  Worker <- MCWorker
  InitialStores <- MCInitialStores
  Sources = {s1, none}
  NoSource = none
  Gap = 1
  RefreshEvery = 2
  PROFILE_SOURCE_LIMIT = 3
  MaxHandle = 5
  MaxFound = 2
  MaxTime = 2
  MaxOps = 2
  MaxFailures = 1
SYMMETRY MCSymmetry
SPECIFICATION ServiceSpec
INVARIANTS
  NothingBarredIsShown
  CountedOncePerRequest
  ConsolidationsAreAccounted
PROPERTIES
  ReplacesEveryProfile
CHECK_DEADLOCK FALSE
