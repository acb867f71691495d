\* Two calls, the second a retry or a competitor of the first, while an
\* operator restricts a memory, a contradiction is reviewed, a memory is purged
\* and tokens expire.
SPECIFICATION Spec
CONSTANTS
  m1 = m1
  m2 = m2
  c1 = c1
  c2 = c2
  None = None
  Memory = {m1, m2}
  Caller = {c1, c2}
  Task <- MCTasks
  MAX_TASK_TYPES = 64
  Asks <- MCAsks
  Configs <- MCConfigs
  Tokens <- MCTokens
  Principals <- MCPrincipals
  Patches <- MCPatches
  Namespace <- MCNamespace
  Depth <- MCDepth
  CLOCK_SKEW_SECONDS = 1
  MaxTime = 2
  MaxUpdates = 1
  MaxFaults = 1
SYMMETRY Symmetry
INVARIANTS
  TokenOnce
  ConfirmedBeforeRelease
  RestrictionIsObserved
CHECK_DEADLOCK FALSE
